---- MODULE Spec2Model ----
(***************************************************************************)
(* Fractal generation engine of fractal_generator: the escape-time kernels *)
(* (Mandelbrot, Julia), the recursive curve generators (Koch snowflake,    *)
(* recursive Sierpinski), the Sierpinski chaos game, the field normalizer  *)
(* of apply_colormap, and the dispatch of FractalGenerator.generate_fractal *)
(* and create_fractal_image; and the window FractalGeneratorUI with its   *)
(* worker thread FractalGenerationThread.                                  *)
(*                                                                         *)
(* Numbers.  The program computes in IEEE doubles.  The model computes in  *)
(* exact arithmetic: rationals n/d for plane coordinates and field values, *)
(* complex rationals (re + i im)/den for orbits, and elements              *)
(* (a + b*sqrt(3))/d of Q(sqrt 3) for the triangle geometry (the only      *)
(* irrational the curve generators introduce is sqrt(3), through           *)
(* triangle_height and the 60 degree rotation).  Rounding of doubles is    *)
(* not modelled.                                                           *)
(***************************************************************************)
EXTENDS Integers, Sequences, FiniteSets, TLC

VARIABLES
    pc,       \* "idle": no call in progress; "chaos": inside the chaos-game loop;
              \* "koch", "sierpinski": inside the recursion of a deep request;
              \* "done": a call has ended
    call,     \* the operation called and its arguments
    ret,      \* the returned 2D array, a sequence of rows (<<>>: none)
    geom,     \* the geometry built by a curve generator: a sequence of point
              \* lists (the Koch path; the Sierpinski triangles)
    current,  \* the chaos game's (current_x, current_y)
    idx,      \* the chaos game's loop index i
    canvas,   \* the chaos game's PIL image img while the loop runs
    normalized, \* apply_colormap's normalized array
    rgb_data, \* apply_colormap's returned image
    error,    \* the exception the call raised to its caller ("": none)
    engine,   \* the FractalGenerator object: its color_schemes and generators
    prev,     \* a finished chaos game the caller kept to compare the next one
              \* with (<<>>: none kept)
    ui        \* the window FractalGeneratorUI: its widgets and attributes, the
              \* worker threads it started and the signals queued for its
              \* event loop (module "none": main() has not constructed it)

vars == <<pc, call, ret, geom, current, idx, canvas, normalized, rgb_data,
          error, engine, prev, ui>>

---------------------------------------------------------------------------
(* Bounds of the model *)

\* largest raster side drawn for a whole-field generation
MaxSide == 3
\* largest max_iterations drawn for a whole-field generation
MaxIter == 4
\* largest numerator / denominator an orbit value may have in the model
MaxMag == 8000
\* largest recursion depth drawn for the curve generators
MaxDepth == 2
\* largest num_points drawn for the chaos game
MaxPoints == 3
\* largest number of cells of a field handed to apply_colormap on its own
MaxCells == 4
\* number of levels the recursion of a deep request is followed down
MaxDescent == 3
\* largest num_points of a chaos game whose result the caller keeps
MaxKept == 2
MaxLong == 102

---------------------------------------------------------------------------
(* Integer helpers *)

Abs(x) == IF x < 0 THEN -x ELSE x

RECURSIVE GCD(_, _)
GCD(a, b) == IF b = 0 THEN Abs(a) ELSE GCD(b, a % b)

Pow2(e) == 2 ^ e

---------------------------------------------------------------------------
(* Rationals n/d, d > 0, in lowest terms *)

Rat(n, d) ==
    LET s == IF d < 0 THEN -1 ELSE 1
        g == GCD(Abs(n), Abs(d))
    IN  [n |-> (s * n) \div g, d |-> (s * d) \div g]

RInt(k) == [n |-> k, d |-> 1]
RAdd(x, y) == Rat(x.n * y.d + y.n * x.d, x.d * y.d)
RSub(x, y) == Rat(x.n * y.d - y.n * x.d, x.d * y.d)
RMul(x, y) == Rat(x.n * y.n, x.d * y.d)
RDiv(x, y) == Rat(x.n * y.d, x.d * y.n)
RLess(x, y) == x.n * y.d < y.n * x.d
RLeq(x, y) == x.n * y.d <= y.n * x.d

---------------------------------------------------------------------------
(* Complex rationals (re + i*im)/den, den > 0, in lowest terms *)

Cplx(re, im, den) ==
    LET g == GCD(GCD(Abs(re), Abs(im)), den)
    IN  [re |-> re \div g, im |-> im \div g, den |-> den \div g]

CZero == [re |-> 0, im |-> 0, den |-> 1]

\* X + 1j * Y for rationals X, Y
CFromRat(x, y) == Cplx(x.n * y.d, y.n * x.d, x.d * y.d)

\* z*z + c
CSqAdd(z, c) ==
    Cplx((z.re * z.re - z.im * z.im) * c.den + c.re * z.den * z.den,
         (2 * z.re * z.im) * c.den + c.im * z.den * z.den,
         z.den * z.den * c.den)

\* |z|^2 as a rational
CAbsSq(z) == Rat(z.re * z.re + z.im * z.im, z.den * z.den)

\* abs(z) > r for a rational r > 0
CAbsGT(z, r) ==
    (z.re * z.re + z.im * z.im) * (r.d * r.d) > (r.n * r.n) * (z.den * z.den)

\* the model can square z and compare it without leaving TLC's integers
Fits(z) == Abs(z.re) <= MaxMag /\ Abs(z.im) <= MaxMag /\ z.den <= MaxMag

---------------------------------------------------------------------------
(* Field values.  A value is a record [kind, n, p, q]:                     *)
(*   kind = "num"    the number p/q (n = 0);                               *)
(*   kind = "smooth" the number n + 1 - log2(log2(sqrt(p/q))), kept        *)
(*                   symbolic: p/q is |z|^2 at bailout;                    *)
(*   kind = "unrep"  an orbit the model cannot follow inside MaxMag.       *)

Num(r) == [kind |-> "num", n |-> 0, p |-> r.n, q |-> r.d]
Smooth(n, zsq) == [kind |-> "smooth", n |-> n, p |-> zsq.n, q |-> zsq.d]
Unrep == [kind |-> "unrep", n |-> 0, p |-> 0, q |-> 1]

Zero == Num(RInt(0))

\* p/q < 2^e for an integer e >= 0 (2^e is an integer, so floor(p/q) decides)
LessPow2(p, q, e) == IF e >= 31 THEN TRUE ELSE (p \div q) < Pow2(e)

\* (p/q)^(2^j) > 2 for j >= 0, squaring only while 1 < p/q < 2
RECURSIVE PowGT2(_, _, _)
PowGT2(p, q, j) ==
    IF p > 2 * q THEN TRUE
    ELSE IF p <= q THEN FALSE
    ELSE IF j = 0 THEN FALSE
    ELSE IF p = 2 * q THEN TRUE
    ELSE PowGT2(p * p, q * q, j - 1)

\* the smooth value is a real number: log2(|z|) > 0, i.e. |z|^2 > 1
SmoothDefined(v) == v.p > v.q

\* 0 < v for a smooth value v: log2(log2|z|) < n+1, i.e. |z|^2 < 2^(2^(n+2))
SmoothPositive(v) ==
    /\ SmoothDefined(v)
    /\ IF v.n + 2 >= 5 THEN TRUE ELSE LessPow2(v.p, v.q, Pow2(v.n + 2))

\* v < k for a smooth value v and an integer k: log2(log2|z|) > m, m = n+1-k
SmoothLess(v, k) ==
    LET m == v.n + 1 - k IN
    /\ SmoothDefined(v)
    /\ IF m >= 0
         THEN IF m + 1 >= 5 THEN FALSE
              ELSE ~ LessPow2(v.p, v.q, Pow2(m + 1)) /\ v.p # Pow2(Pow2(m + 1)) * v.q
         ELSE PowGT2(v.p, v.q, -(m + 1))

---------------------------------------------------------------------------
(* Coordinate arrays: np.linspace and np.meshgrid *)

\* num samples with the end point left out (np.linspace with endpoint=False),
\* which loses the symmetry of C4
linspace_open(start, stop, num) ==
    [k \in 1..num |-> RAdd(start, RMul(Rat(k - 1, num), RSub(stop, start)))]

\* np.linspace(start, stop, num): num samples, both endpoints included; a
\* single sample is start
linspace(start, stop, num) ==
    [k \in 1..num |->
        IF num = 1 THEN start
        ELSE RAdd(start, RMul(Rat(k - 1, num - 1), RSub(stop, start)))]

\* np.meshgrid(x, y): X[i][j] = x[j], Y[i][j] = y[i], both of shape (len y, len x)
meshgridX(x, y) == [i \in 1..Len(y) |-> [j \in 1..Len(x) |-> x[j]]]
meshgridY(x, y) == [i \in 1..Len(y) |-> [j \in 1..Len(x) |-> y[i]]]

\* X + 1j * Y
ComplexPlane(X, Y) ==
    [i \in 1..Len(X) |-> [j \in 1..Len(X[i]) |-> CFromRat(X[i][j], Y[i][j])]]

\* C.shape / result.shape of a 2D array stored as a sequence of rows
Rows(f) == Len(f)
Cols(f) == IF Len(f) = 0 THEN 0 ELSE Len(f[1])
IsGrid(f, h, w) == Len(f) = h /\ \A i \in 1..h : Len(f[i]) = w

---------------------------------------------------------------------------
(* Mandelbrot kernel, MandelbrotGenerator._mandelbrot_set *)

\* for n in range(max_iterations): if abs(z) > escape_radius: break; z = z*z + c
\* The result is z and n as they stand after the loop.
RECURSIVE mandelbrot_loop(_, _, _, _, _)
mandelbrot_loop(z, n, c, max_iterations, escape_radius) ==
    IF n = max_iterations
      THEN [z |-> z, n |-> max_iterations - 1, st |-> "ok", broke |-> FALSE]
    ELSE IF ~ Fits(z)
      THEN [z |-> CZero, n |-> n, st |-> "unrep", broke |-> FALSE]
    ELSE IF CAbsGT(z, escape_radius)
      THEN [z |-> z, n |-> n, st |-> "ok", broke |-> TRUE]
    ELSE mandelbrot_loop(CSqAdd(z, c), n + 1, c, max_iterations, escape_radius)

\* the colouring with the interior test off by one (n == max_iterations), under
\* which no pixel is ever interior, against C2
mandelbrot_color_late(l, max_iterations) ==
    IF l.st = "unrep" THEN Unrep
    ELSE IF l.n = max_iterations THEN Zero
    ELSE Smooth(l.n, CAbsSq(l.z))

\* the colouring of one pixel
mandelbrot_color(l, max_iterations) ==
    IF l.st = "unrep" THEN Unrep
    ELSE IF l.n = max_iterations - 1 THEN Zero
    ELSE Smooth(l.n, CAbsSq(l.z))

\* the pixel with the orbit started at z = c instead of z = 0, which bails out
\* one iteration early, against C3
mandelbrot_pixel_from_c(c, max_iterations, escape_radius) ==
    mandelbrot_color(mandelbrot_loop(c, 0, c, max_iterations, escape_radius),
                     max_iterations)

\* one pixel: z = 0, the loop, the colouring
mandelbrot_pixel(c, max_iterations, escape_radius) ==
    mandelbrot_color(mandelbrot_loop(CZero, 0, c, max_iterations, escape_radius),
                     max_iterations)

mandelbrot_set(C, max_iterations, escape_radius) ==
    [i \in 1..Rows(C) |-> [j \in 1..Cols(C) |->
        mandelbrot_pixel(C[i][j], max_iterations, escape_radius)]]

\* the complex plane MandelbrotGenerator.generate hands to the kernel
mandelbrot_plane(r) ==
    LET x == linspace(r.x_min, r.x_max, r.width)
        y == linspace(r.y_min, r.y_max, r.height)
    IN  ComplexPlane(meshgridX(x, y), meshgridY(x, y))

MandelbrotGenerator_generate(r) ==
    mandelbrot_set(mandelbrot_plane(r), r.max_iterations, r.escape_radius)

---------------------------------------------------------------------------
(* Julia set, JuliaGenerator.generate *)

JuliaBailout == 2

\* for n in range(max_iterations): if abs(z) > 2: break; z = z*z + c
RECURSIVE julia_loop(_, _, _, _)
julia_loop(z, n, c, max_iterations) ==
    IF n = max_iterations
      THEN [z |-> z, n |-> max_iterations - 1, st |-> "ok", broke |-> FALSE]
    ELSE IF ~ Fits(z)
      THEN [z |-> CZero, n |-> n, st |-> "unrep", broke |-> FALSE]
    ELSE IF CAbsGT(z, RInt(JuliaBailout))
      THEN [z |-> z, n |-> n, st |-> "ok", broke |-> TRUE]
    ELSE julia_loop(CSqAdd(z, c), n + 1, c, max_iterations)

\* result[i, j] = n
julia_pixel(z0, c, max_iterations) ==
    LET l == julia_loop(z0, 0, c, max_iterations)
    IN  IF l.st = "unrep" THEN Unrep ELSE Num(RInt(l.n))

JuliaGenerator_generate(r) ==
    LET x == linspace(r.x_min, r.x_max, r.width)
        y == linspace(r.y_min, r.y_max, r.height)
        Z == ComplexPlane(meshgridX(x, y), meshgridY(x, y))
        c == CFromRat(r.c_real, r.c_imag)
    IN  [i \in 1..r.height |-> [j \in 1..r.width |->
            julia_pixel(Z[i][j], c, r.max_iterations)]]

---------------------------------------------------------------------------
(* Q(sqrt 3): numbers (a + b*sqrt(3))/d, d > 0, in lowest terms *)

S3(a, b, d) ==
    LET s == IF d < 0 THEN -1 ELSE 1
        g == GCD(GCD(Abs(a), Abs(b)), Abs(d))
    IN  [a |-> (s * a) \div g, b |-> (s * b) \div g, d |-> (s * d) \div g]

SInt(k) == [a |-> k, b |-> 0, d |-> 1]
SRat(r) == [a |-> r.n, b |-> 0, d |-> r.d]
SAdd(x, y) == S3(x.a * y.d + y.a * x.d, x.b * y.d + y.b * x.d, x.d * y.d)
SSub(x, y) == S3(x.a * y.d - y.a * x.d, x.b * y.d - y.b * x.d, x.d * y.d)
SMul(x, y) == S3(x.a * y.a + 3 * x.b * y.b, x.a * y.b + x.b * y.a, x.d * y.d)
SDivInt(x, k) == S3(x.a, x.b, x.d * k)
SNeg(x) == [a |-> -x.a, b |-> -x.b, d |-> x.d]

Sqrt3 == [a |-> 0, b |-> 1, d |-> 1]

\* the sign of a + b*sqrt(3)
SSign(x) ==
    IF x.a = 0 /\ x.b = 0 THEN 0
    ELSE IF x.a >= 0 /\ x.b >= 0 THEN 1
    ELSE IF x.a <= 0 /\ x.b <= 0 THEN -1
    ELSE IF x.a > 0 THEN (IF x.a * x.a > 3 * x.b * x.b THEN 1 ELSE -1)
    ELSE (IF 3 * x.b * x.b > x.a * x.a THEN 1 ELSE -1)

SLeq(x, y) == SSign(SSub(y, x)) >= 0
SLess(x, y) == SSign(SSub(y, x)) > 0

\* the greatest integer <= x, found between two rational bounds of x
SFloor(x) ==
    LET lo == IF x.b >= 0 THEN (1000 * x.a + 1732 * x.b) \div (1000 * x.d)
                          ELSE (1000 * x.a + 1733 * x.b) \div (1000 * x.d)
        hi == IF x.b >= 0 THEN (1000 * x.a + 1733 * x.b) \div (1000 * x.d)
                          ELSE (1000 * x.a + 1732 * x.b) \div (1000 * x.d)
    IN  CHOOSE k \in lo..hi : SLeq(SInt(k), x) /\ ~ SLeq(SInt(k + 1), x)

\* Python's int(x): truncation toward zero
int(x) == IF SSign(x) >= 0 THEN SFloor(x) ELSE -SFloor(SNeg(x))

\* math.cos and math.sin of the angles the model draws (degrees)
CosDeg(a) ==
    CASE a = 0 -> SInt(1) [] a = 30 -> S3(0, 1, 2) [] a = 60 -> S3(1, 0, 2)
      [] a = 90 -> SInt(0) [] a = 180 -> SInt(-1)
SinDeg(a) ==
    CASE a = 0 -> SInt(0) [] a = 30 -> S3(1, 0, 2) [] a = 60 -> S3(0, 1, 2)
      [] a = 90 -> SInt(1) [] a = 180 -> SInt(0)

\* s[:-1]
AllButLast(s) == SubSeq(s, 1, Len(s) - 1)

---------------------------------------------------------------------------
(* Koch snowflake, KochGenerator *)

\* points are pairs <<x, y>>
\* p2, the point 1/3 along the line from p1 to p5
koch_p2(p1, p5) ==
    <<SAdd(p1[1], SDivInt(SSub(p5[1], p1[1]), 3)),
      SAdd(p1[2], SDivInt(SSub(p5[2], p1[2]), 3))>>

\* p4, the point 2/3 along the line from p1 to p5
koch_p4(p1, p5) ==
    <<SAdd(p1[1], SDivInt(SMul(SInt(2), SSub(p5[1], p1[1])), 3)),
      SAdd(p1[2], SDivInt(SMul(SInt(2), SSub(p5[2], p1[2])), 3))>>

\* p3, the peak: p4 - p2 rotated by 60 degrees about p2
koch_p3(p2, p4) ==
    LET dx == SSub(p4[1], p2[1])
        dy == SSub(p4[2], p2[2])
    IN  <<SSub(SAdd(p2[1], SMul(dx, CosDeg(60))), SMul(dy, SinDeg(60))),
          SAdd(SAdd(p2[2], SMul(dx, SinDeg(60))), SMul(dy, CosDeg(60)))>>

\* the four sub-curves joined with their shared joints kept twice, against C5
koch_combine_joints(curve) == curve[1] \o curve[2] \o curve[3] \o curve[4]

\* curve1[:-1] + curve2[:-1] + curve3[:-1] + curve4
koch_combine(curve) ==
    AllButLast(curve[1]) \o AllButLast(curve[2]) \o AllButLast(curve[3]) \o curve[4]

\* _koch_curve(start, end, depth)
RECURSIVE koch_curve(_, _, _)
koch_segments(ends, depth) ==
    koch_combine([k \in 1..4 |-> koch_curve(ends[k], ends[k + 1], depth - 1)])

koch_curve(start, end, depth) ==
    IF depth = 0 THEN <<start, end>>
    ELSE koch_segments(<<start,
                         koch_p2(start, end),
                         koch_p3(koch_p2(start, end), koch_p4(start, end)),
                         koch_p4(start, end),
                         end>>, depth)

\* _rotate_points(points, angle_degrees, center)
rotate_points(points, angle_degrees, center) ==
    LET cos_a == CosDeg(angle_degrees)
        sin_a == SinDeg(angle_degrees)
        cx == center[1]
        cy == center[2]
    IN  [k \in 1..Len(points) |->
            LET x == SSub(points[k][1], cx)
                y == SSub(points[k][2], cy)
            IN  <<SAdd(SSub(SMul(x, cos_a), SMul(y, sin_a)), cx),
                  SAdd(SAdd(SMul(x, sin_a), SMul(y, cos_a)), cy)>>]

\* the initial triangle, centred in the image (shared by Koch and Sierpinski)
triangle_vertices(width, height, size, start_x, start_y) ==
    LET center_x == SAdd(SInt(width \div 2), start_x)
        center_y == SAdd(SInt(height \div 2), start_y)
        triangle_height == SDivInt(SMul(size, Sqrt3), 2)
    IN  << <<SSub(center_x, SDivInt(size, 2)), SSub(center_y, SDivInt(triangle_height, 3))>>,
           <<SAdd(center_x, SDivInt(size, 2)), SSub(center_y, SDivInt(triangle_height, 3))>>,
           <<center_x, SAdd(center_y, SDivInt(SMul(SInt(2), triangle_height), 3))>> >>

\* the vertices KochGenerator.generate starts from: rotated when angle != 0
koch_vertices(r) ==
    LET v == triangle_vertices(r.width, r.height, r.size, r.start_x, r.start_y)
        center == <<SAdd(SInt(r.width \div 2), r.start_x),
                    SAdd(SInt(r.height \div 2), r.start_y)>>
    IN  IF r.angle # 0 THEN rotate_points(v, r.angle, center) ELSE v

\* the three sides joined with every corner kept twice, against C6
koch_sides_corners(vertices, depth) ==
    koch_curve(vertices[1], vertices[2], depth)
    \o koch_curve(vertices[2], vertices[3], depth)
    \o koch_curve(vertices[3], vertices[1], depth)

\* all_points: the three sides' curves, each without its last point
koch_sides(vertices, depth) ==
    AllButLast(koch_curve(vertices[1], vertices[2], depth))
    \o AllButLast(koch_curve(vertices[2], vertices[3], depth))
    \o AllButLast(koch_curve(vertices[3], vertices[1], depth))

koch_all_points(r) == koch_sides(koch_vertices(r), r.depth)

---------------------------------------------------------------------------
(* The PIL canvas.  An image is its size (width, height) and the set of    *)
(* its white pixels <<x, y>>; every other pixel is black.                  *)

White == 255

\* an image created with its two sides exchanged, against C1
Image_new_transposed(width, height) == [size |-> <<height, width>>, white |-> {}]

\* Image.new('RGB', (width, height), 'black')
Image_new(width, height) == [size |-> <<width, height>>, white |-> {}]

InImage(img, p) ==
    0 <= p[1] /\ p[1] < img.size[1] /\ 0 <= p[2] /\ p[2] < img.size[2]

\* colour the pixels of ps that lie inside the image; the rest is clipped
Paint(img, ps) == [img EXCEPT !.white = @ \cup {p \in ps : InImage(img, p)}]

\* the pixels of PIL's Bresenham line from (x, y): n steps along the major axis
RECURSIVE bresenham(_, _, _, _, _, _, _, _, _)
bresenham(x, y, e, n, dmajor2, dminor2, xs, ys, xmajor) ==
    IF n = 0 THEN {}
    ELSE LET turn == e >= 0
             e1 == (IF turn THEN e - dmajor2 ELSE e) + dminor2
             x1 == IF xmajor \/ turn THEN x + xs ELSE x
             y1 == IF ~ xmajor \/ turn THEN y + ys ELSE y
         IN  {<<x, y>>} \cup bresenham(x1, y1, e1, n - 1, dmajor2, dminor2, xs, ys, xmajor)

\* draw.line([p, q], fill='white', width=1): the pixels of the segment, both ends
line_pixels(p, q) ==
    LET dx == Abs(q[1] - p[1])
        dy == Abs(q[2] - p[2])
        xs == IF q[1] < p[1] THEN -1 ELSE 1
        ys == IF q[2] < p[2] THEN -1 ELSE 1
    IN  {q} \cup
        IF dx > dy
          THEN bresenham(p[1], p[2], 2 * dy - dx, dx, 2 * dx, 2 * dy, xs, ys, TRUE)
          ELSE bresenham(p[1], p[2], 2 * dx - dy, dy, 2 * dy, 2 * dx, xs, ys, FALSE)

\* twice the signed area of the integer triangle (a, b, c)
Cross(a, b, c) == (b[1] - a[1]) * (c[2] - a[2]) - (b[2] - a[2]) * (c[1] - a[1])

Min3(a, b, c) == IF a <= b /\ a <= c THEN a ELSE IF b <= c THEN b ELSE c
Max3(a, b, c) == IF a >= b /\ a >= c THEN a ELSE IF b >= c THEN b ELSE c

\* draw.polygon(t, fill='white', outline='white') for a triangle t: the lattice
\* points of the closed triangle and the three outline segments
polygon_pixels(t) ==
    LET inside ==
          {p \in (Min3(t[1][1], t[2][1], t[3][1])..Max3(t[1][1], t[2][1], t[3][1]))
                 \X (Min3(t[1][2], t[2][2], t[3][2])..Max3(t[1][2], t[2][2], t[3][2])) :
              LET d1 == Cross(t[1], t[2], p)
                  d2 == Cross(t[2], t[3], p)
                  d3 == Cross(t[3], t[1], p)
              IN  ~ ((d1 < 0 \/ d2 < 0 \/ d3 < 0) /\ (d1 > 0 \/ d2 > 0 \/ d3 > 0))}
    IN  inside \cup line_pixels(t[1], t[2]) \cup line_pixels(t[2], t[3])
               \cup line_pixels(t[3], t[1])

\* draw.rectangle([x-1, y-1, x+1, y+1], fill='white')
rectangle_pixels(x, y) == ((x - 1)..(x + 1)) \X ((y - 1)..(y + 1))

\* np.mean(np.array(img), axis=2): one row per image line, one column per pixel
grayscale(img) ==
    [i \in 1..img.size[2] |-> [j \in 1..img.size[1] |->
        Num(RInt(IF <<j - 1, i - 1>> \in img.white THEN White ELSE 0))]]

\* (int(p[0]), int(p[1])) for every point
int_points(points) == [k \in 1..Len(points) |-> <<int(points[k][1]), int(points[k][2])>>]

---------------------------------------------------------------------------
(* KochGenerator.generate *)

\* for i in range(len(points_list) - 1): draw.line([points_list[i],
\* points_list[i + 1]]): the segments between consecutive points, all painted
draw_lines(img, points_list) ==
    Paint(img, UNION {line_pixels(points_list[k], points_list[k + 1]) :
                        k \in 1..(Len(points_list) - 1)})

\* points_list with its first point appended: the closed shape
closed_list(points_list) == points_list \o <<points_list[1]>>

\* the drawing of all_points on a fresh image, as grayscale
koch_draw(width, height, all_points) ==
    grayscale(IF Len(all_points) > 1
                THEN draw_lines(Image_new(width, height),
                                closed_list(int_points(all_points)))
                ELSE Image_new(width, height))

KochGenerator_generate(r) == koch_draw(r.width, r.height, koch_all_points(r))

---------------------------------------------------------------------------
(* Recursive Sierpinski triangle, SierpinskiGenerator *)

\* the point one third of the way from p to q instead of the midpoint, against C7
ThirdPoint(p, q) ==
    <<SDivInt(SAdd(SMul(SInt(2), p[1]), q[1]), 3), SDivInt(SAdd(SMul(SInt(2), p[2]), q[2]), 3)>>

\* the midpoint of the edge from p to q
Midpoint(p, q) == <<SDivInt(SAdd(p[1], q[1]), 2), SDivInt(SAdd(p[2], q[2]), 2)>>

\* _draw_sierpinski_recursive(draw, vertices, depth): the triangles handed to
\* draw.polygon, in the order of the calls
RECURSIVE draw_sierpinski_recursive(_, _)
draw_sierpinski_recursive(vertices, depth) ==
    IF depth = 0 THEN <<vertices>>
    ELSE
      LET midpoints == << Midpoint(vertices[1], vertices[2]),
                          Midpoint(vertices[2], vertices[3]),
                          Midpoint(vertices[3], vertices[1]) >>
          triangle1 == <<vertices[1], midpoints[1], midpoints[3]>>
          triangle2 == <<midpoints[1], vertices[2], midpoints[2]>>
          triangle3 == <<midpoints[3], midpoints[2], vertices[3]>>
          triangles == <<triangle1, triangle2, triangle3>>
          drawn == [k \in 1..3 |-> draw_sierpinski_recursive(triangles[k], depth - 1)]
      IN  drawn[1] \o drawn[2] \o drawn[3]

\* the draw.polygon calls of the recursion, all painted
draw_polygons(img, triangles) ==
    Paint(img, UNION {polygon_pixels(int_points(triangles[k])) : k \in 1..Len(triangles)})

\* _recursive_method(width, height, depth, size, start_x, start_y)
recursive_method(r) ==
    LET img == Image_new(r.width, r.height)
        vertices == triangle_vertices(r.width, r.height, r.size, r.start_x, r.start_y)
    IN  grayscale(draw_polygons(img, draw_sierpinski_recursive(vertices, r.depth)))

---------------------------------------------------------------------------
(* Requests drawn by the model *)

\* the [min, max] ranges of a region's sides
Spans == {<<-2, 2>>, <<-1, 1>>, <<-2, 1>>, <<0, 2>>}

\* PlaneRegion with x_max > x_min and y_max > y_min, integer corners
ValidRegions ==
    {[x_min |-> RInt(xs[1]), x_max |-> RInt(xs[2]),
      y_min |-> RInt(ys[1]), y_max |-> RInt(ys[2])] : xs \in Spans, ys \in Spans}

\* escape_radius > 0
Radii == {Rat(1, 2), RInt(1), RInt(2)}

\* max_iterations >= 1: the small ones and the 50 of the 4x4 scenario
Iterations == (1..MaxIter) \cup {50}

\* the Julia constants c_real, c_imag
JuliaReal == {RInt(-1), RInt(0)}
JuliaImag == {RInt(0), RInt(1)}

EscapeRequest(w, h, g, mi, R, cr, ci) ==
    [width |-> w, height |-> h,
     x_min |-> g.x_min, x_max |-> g.x_max, y_min |-> g.y_min, y_max |-> g.y_max,
     max_iterations |-> mi, escape_radius |-> R, c_real |-> cr, c_imag |-> ci]

\* Mandelbrot, region [-2,2] x [-2,2], max_iterations 50, escape_radius 2, 4x4
Scenario4x4 ==
    [width |-> 4, height |-> 4,
     x_min |-> RInt(-2), x_max |-> RInt(2), y_min |-> RInt(-2), y_max |-> RInt(2),
     max_iterations |-> 50, escape_radius |-> RInt(2),
     c_real |-> RInt(0), c_imag |-> RInt(0)]

\* every value of the field is one the model could compute
Representable(f) == \A i \in 1..Len(f) : \A j \in 1..Len(f[i]) : f[i][j].kind # "unrep"

---------------------------------------------------------------------------
(* The FractalGenerator object *)

\* self.color_schemes: palette name -> matplotlib colormap
color_schemes ==
    [name \in {"Classic", "Hot", "Cool", "Viridis", "Plasma", "Rainbow", "Grayscale"} |->
        CASE name = "Classic" -> "hot"
          [] name = "Hot" -> "hot"
          [] name = "Cool" -> "cool"
          [] name = "Viridis" -> "viridis"
          [] name = "Plasma" -> "plasma"
          [] name = "Rainbow" -> "rainbow"
          [] name = "Grayscale" -> "gray"]

\* self.generators: fractal type -> generator class
generators ==
    [name \in {"Mandelbrot Set", "Julia Set", "Koch Snowflake", "Sierpinski",
               "Dragon Curve", "Barnsley Fern", "Newton", "Burning Ship",
               "Test Pattern"} |->
        CASE name = "Mandelbrot Set" -> "MandelbrotGenerator"
          [] name = "Julia Set" -> "JuliaGenerator"
          [] name = "Koch Snowflake" -> "KochGenerator"
          [] name = "Sierpinski" -> "SierpinskiGenerator"
          [] name = "Dragon Curve" -> "DragonGenerator"
          [] name = "Barnsley Fern" -> "BarnsleyFernGenerator"
          [] name = "Newton" -> "NewtonGenerator"
          [] name = "Burning Ship" -> "BurningShipGenerator"
          [] name = "Test Pattern" -> "TestPatternGenerator"]

\* FractalGenerator.__init__
FractalGenerator_init == [color_schemes |-> color_schemes, generators |-> generators]

\* FractalGeneratorUI.__init__ of module m ("fractal_generator" or "mainUI"):
\* the combo shows the placeholder, the width box its default, both buttons
\* are disabled, the progress bar is hidden, nothing is generated or started.
\* threads holds the FractalGenerationThread objects made so far, events the
\* emitted signals not yet delivered to the window; returned_early tells that
\* on_generate_clicked has found a running thread and returned; callbacks
\* lists the handled terminal callbacks; message is the text of the last
\* message box shown.
FractalGeneratorUI_init(m) ==
    [module |-> m,
     fractal_combo |-> "Select Fractal Type...",
     width |-> IF m = "fractal_generator" THEN 600 ELSE 800,
     generate_button |-> FALSE,
     save_button |-> FALSE,
     progress_bar |-> [visible |-> FALSE, value |-> 0],
     current_image |-> 0,
     current_raw_data |-> 0,
     generation_thread |-> 0,
     threads |-> <<>>,
     events |-> <<>>,
     returned_early |-> FALSE,
     callbacks |-> <<>>,
     message |-> ""]

---------------------------------------------------------------------------
(* Calls of the escape-time generators *)

NoCall == [op |-> "none"]

NoPoint == <<SInt(0), SInt(0)>>
NoImage == Image_new(0, 0)

InitIdle ==
    /\ pc = "idle" /\ call = NoCall /\ ret = <<>>
    /\ geom = <<>> /\ current = NoPoint /\ idx = 0
    /\ canvas = NoImage /\ normalized = <<>> /\ rgb_data = <<>>
    /\ error = "" /\ engine = FractalGenerator_init /\ prev = <<>>
    /\ ui = [FractalGeneratorUI_init("mainUI") EXCEPT !.module = "none"]

\* MandelbrotGenerator.generate on a whole raster
MandelbrotGenerate ==
    /\ pc = "idle"
    /\ \E w \in 1..MaxSide, h \in 1..MaxSide, g \in ValidRegions,
          mi \in 1..MaxIter, R \in Radii :
        LET r == EscapeRequest(w, h, g, mi, R, RInt(0), RInt(0))
            f == MandelbrotGenerator_generate(r)
        IN  /\ Representable(f)
            /\ call' = [op |-> "Mandelbrot Set", req |-> r]
            /\ ret' = f
    /\ pc' = "done"
    /\ UNCHANGED <<geom, current, idx, canvas, normalized, rgb_data, error, engine, prev, ui>>

\* the kernel run on the 1x1 array C[i:i+1, j:j+1] of a request's complex plane
\* (0-based i, j): its work on pixel (i, j)
MandelbrotPixel ==
    /\ pc = "idle"
    /\ \E r \in {EscapeRequest(w, h, g, mi, R, RInt(0), RInt(0)) :
                    w \in 1..MaxSide, h \in 1..MaxSide, g \in ValidRegions,
                    mi \in Iterations, R \in Radii} \cup {Scenario4x4} :
       \E row \in 0..(r.height - 1), col \in 0..(r.width - 1) :
        LET c == mandelbrot_plane(r)[row + 1][col + 1]
            v == mandelbrot_pixel(c, r.max_iterations, r.escape_radius)
        IN  /\ v.kind # "unrep"
            /\ call' = [op |-> "_mandelbrot_set", req |-> r, i |-> row, j |-> col, c |-> c]
            /\ ret' = <<<<v>>>>
    /\ pc' = "done"
    /\ UNCHANGED <<geom, current, idx, canvas, normalized, rgb_data, error, engine, prev, ui>>

\* JuliaGenerator.generate on a whole raster; the request's escape_radius is
\* among the keyword arguments that **kwargs collects
JuliaGenerate ==
    /\ pc = "idle"
    /\ \E w \in 1..MaxSide, h \in 1..MaxSide, g \in ValidRegions,
          mi \in 1..MaxIter, R \in Radii, cr \in JuliaReal, ci \in JuliaImag :
        LET r == EscapeRequest(w, h, g, mi, R, cr, ci)
            f == JuliaGenerator_generate(r)
        IN  /\ Representable(f)
            /\ call' = [op |-> "Julia Set", req |-> r]
            /\ ret' = f
    /\ pc' = "done"
    /\ UNCHANGED <<geom, current, idx, canvas, normalized, rgb_data, error, engine, prev, ui>>

\* the caller takes the result; nothing of the call is kept
Return ==
    /\ pc = "done"
    /\ pc' = "idle"
    /\ call' = NoCall
    /\ ret' = <<>>
    /\ geom' = <<>>
    /\ current' = NoPoint
    /\ idx' = 0
    /\ canvas' = NoImage
    /\ normalized' = <<>>
    /\ rgb_data' = <<>>
    /\ error' = ""
    /\ prev' = <<>>
    /\ UNCHANGED <<engine, ui>>

NextEscape == MandelbrotGenerate \/ MandelbrotPixel \/ JuliaGenerate \/ Return

SpecEscape == InitIdle /\ [][NextEscape]_vars

---------------------------------------------------------------------------
(* Claims about the escape-time generators *)

KernelDone == pc = "done" /\ call.op = "_mandelbrot_set"

\* C2: in the Mandelbrot kernel a pixel whose complex value is c = 0 is assigned
\* the interior value 0, for every max_iterations >= 1 and escape_radius > 0.
C2_OriginIsInterior ==
    (KernelDone /\ call.c = CZero) => ret[1][1] = Zero

\* c = 0 was run through the kernel with 50 iterations and the radius 1/2
C2_Witness ==
    /\ KernelDone /\ call.c = CZero
    /\ call.req.max_iterations = 50 /\ call.req.escape_radius = Rat(1, 2)
    /\ ret[1][1] = Zero

InScenario4x4 == KernelDone /\ call.req = Scenario4x4

\* the value lies strictly between 0 and 50
Between0And50(v) == v.kind = "smooth" /\ SmoothPositive(v) /\ SmoothLess(v, 50)

\* C3 as stated: in the 4x4 scenario pixel (2,2) is assigned the interior value 0
\* and the corner pixel sampled at (-2,-2) a value strictly between 0 and 50.
C3_Original ==
    InScenario4x4 =>
        /\ (call.i = 2 /\ call.j = 2) => ret[1][1] = Zero
        /\ call.c = Cplx(-2, -2, 1) => Between0And50(ret[1][1])

\* C3 amended: in the 4x4 scenario pixel (2,2) samples c = 2/3 + 2/3 i, bails out
\* at n = 3 and is assigned a smooth value strictly between 0 and 50; the corner
\* pixel sampled at (-2,-2) is assigned a value strictly between 0 and 50.
C3_Scenario4x4 ==
    InScenario4x4 =>
        /\ (call.i = 2 /\ call.j = 2) =>
              /\ call.c = Cplx(2, 2, 3)
              /\ ret[1][1].n = 3
              /\ Between0And50(ret[1][1])
        /\ call.c = Cplx(-2, -2, 1) => Between0And50(ret[1][1])

\* pixel (2,2) of the scenario has been computed
C3_Witness == InScenario4x4 /\ call.i = 2 /\ call.j = 2 /\ ret[1][1].kind = "smooth"

\* the corner pixel (0,0) of the scenario has been computed
C3_CornerReached == InScenario4x4 /\ call.i = 0 /\ call.j = 0 /\ ret[1][1].kind = "smooth"

\* a whole field of Mandelbrot, or of Julia with c_imag = 0, over y_min = -y_max
SymmetricCase ==
    /\ pc = "done"
    /\ \/ call.op = "Mandelbrot Set"
       \/ call.op = "Julia Set" /\ call.req.c_imag = RInt(0)
    /\ call.req.y_min = RSub(RInt(0), call.req.y_max)

C4_JuliaReached ==
    /\ SymmetricCase /\ call.op = "Julia Set"
    /\ call.req.height = 3 /\ ret[1] # ret[2] /\ ret[1] = ret[3]


\* C15: in the Mandelbrot kernel, for every escape_radius > 0 and every pixel,
\* whenever the smooth-colouring expression log2(log2(|z|)) is evaluated its
\* argument |z| is strictly greater than 1, so that the inner logarithm is
\* positive and the value is a number.
C15_LogArgumentAboveOne ==
    (KernelDone /\ ret[1][1].kind = "smooth") => SmoothDefined(ret[1][1])

\* the expression has been evaluated with |z| < 1: the inner logarithm is
\* negative and the outer one is NaN
C15_NaNReached ==
    /\ KernelDone /\ ret[1][1].kind = "smooth"
    /\ call.req.escape_radius = Rat(1, 2)
    /\ ret[1][1].p < ret[1][1].q

\* the expression has been evaluated with |z| = 1: the inner logarithm is 0,
\* the outer one -inf, the value +inf
C15_InfReached ==
    /\ KernelDone /\ ret[1][1].kind = "smooth"
    /\ call.req.escape_radius = Rat(1, 2)
    /\ ret[1][1].p = ret[1][1].q

\* with an escape_radius of at least 1 every evaluation has |z| > 1
C15_RadiusAtLeastOne ==
    (KernelDone /\ ret[1][1].kind = "smooth" /\ RLeq(RInt(1), call.req.escape_radius)) =>
        SmoothDefined(ret[1][1])


\* the kernel's loop on the pixel of the call
KernelLoop ==
    mandelbrot_loop(CZero, 0, call.c, call.req.max_iterations, call.req.escape_radius)

\* the colouring v of a pixel whose loop ended as l: a bailout is coloured
\* smooth, and 0 is given to exhausted loops only
BailoutSmooth(l, v) ==
    /\ l.broke => v = Smooth(l.n, CAbsSq(l.z))
    /\ v = Zero => ~ l.broke

\* C18: in the Mandelbrot kernel every pixel whose orbit triggers the bailout
\* test |z| > escape_radius at any check inside the loop is assigned the smooth
\* escape value with n the iteration count at bailout; the value 0 is assigned
\* only to pixels whose loop ran through all max_iterations iterations without
\* the test ever firing.
C18_BailoutIsSmooth ==
    KernelDone => BailoutSmooth(KernelLoop, ret[1][1])

LastCheck(l, v) == l.broke /\ l.n = call.req.max_iterations - 1 /\ v = Zero

\* a pixel whose bailout test fired at the last check of the loop holds 0
C18_LastCheckReached ==
    KernelDone /\ call.req.max_iterations = 2 /\ LastCheck(KernelLoop, ret[1][1])

EarlierCheck(l, v) ==
    (l.broke /\ l.n < call.req.max_iterations - 1) => v = Smooth(l.n, CAbsSq(l.z))

\* a bailout at any earlier check is coloured smooth
C18_EarlierChecksSmooth ==
    KernelDone => EarlierCheck(KernelLoop, ret[1][1])

JuliaDone == pc = "done" /\ call.op = "Julia Set"

\* the sample and the Julia constant of pixel (i, j) of the call, 1-based
JuliaSample(i, j) == mandelbrot_plane(call.req)[i][j]
JuliaC == CFromRat(call.req.c_real, call.req.c_imag)

NeverEscapedIsZero(l, v) == ~ l.broke => v = Zero

\* C19: in JuliaGenerator.generate a pixel whose orbit never triggers the
\* bailout test within max_iterations iterations is assigned the interior
\* value 0.
C19_JuliaInteriorIsZero ==
    JuliaDone => \A i \in 1..Rows(ret) : \A j \in 1..Cols(ret) :
        NeverEscapedIsZero(julia_loop(JuliaSample(i, j), 0, JuliaC, call.req.max_iterations),
                           ret[i][j])

NeverEscapedIsLast(l, v) == ~ l.broke /\ v = Num(RInt(call.req.max_iterations - 1))

\* a pixel whose orbit never left holds max_iterations - 1 = 3 in a field of
\* four iterations
C19_LastIndexReached ==
    /\ JuliaDone /\ call.req.max_iterations = 4
    /\ \E i \in 1..Rows(ret) : \E j \in 1..Cols(ret) :
        NeverEscapedIsLast(julia_loop(JuliaSample(i, j), 0, JuliaC, 4), ret[i][j])

StopsAtRadius(l, v) == l.st = "ok" => v = Num(RInt(l.n))

\* C20: JuliaGenerator.generate uses the request's escape_radius as its bailout
\* threshold: for every escape_radius R > 0 of the request, a pixel's iteration
\* stops exactly when |z| > R, so that the pixel holds the index at which the
\* loop with threshold R stops.
C20_JuliaUsesRequestRadius ==
    JuliaDone => \A i \in 1..Rows(ret) : \A j \in 1..Cols(ret) :
        StopsAtRadius(mandelbrot_loop(JuliaSample(i, j), 0, JuliaC, call.req.max_iterations,
                                      call.req.escape_radius),
                      ret[i][j])

\* the field returned for a request does not depend on its escape_radius: it
\* is the field of the same request with escape_radius 2
C20_RadiusIgnored ==
    JuliaDone =>
        ret = JuliaGenerator_generate([call.req EXCEPT !.escape_radius = RInt(JuliaBailout)])

PastRadius(z0, v) ==
    CAbsGT(z0, call.req.escape_radius) /\ v # Zero

\* a pixel whose sample is already outside the request's radius 1 has been
\* iterated on
C20_PastRadiusReached ==
    /\ JuliaDone /\ call.req.escape_radius = RInt(1)
    /\ \E i \in 1..Rows(ret) : \E j \in 1..Cols(ret) : PastRadius(JuliaSample(i, j), ret[i][j])

---------------------------------------------------------------------------
(* Calls of the recursive curve generators *)

Sizes == {SInt(1), SInt(2), SInt(4)}
Starts == {SInt(-1), SInt(0)}
Angles == {0, 60, 90}

CurveRequest(w, h, depth, size, sx, sy, angle, method, num_points) ==
    [width |-> w, height |-> h, depth |-> depth, size |-> size,
     start_x |-> sx, start_y |-> sy, angle |-> angle, line_width |-> 1,
     method |-> method, num_points |-> num_points]

\* the end points handed to _koch_curve on its own
\* the seeds a caller passes to the chaos game
Seeds == {1, 2}

CurveEnds == {<<SInt(x), SInt(y)>> : x \in {0, 3}, y \in {0, 2}}

\* KochGenerator._koch_curve(start, end, depth)
KochCurve ==
    /\ pc = "idle"
    /\ \E start \in CurveEnds, end \in CurveEnds, depth \in 0..MaxDepth :
        /\ call' = [op |-> "_koch_curve", start |-> start, end |-> end, depth |-> depth]
        /\ geom' = <<koch_curve(start, end, depth)>>
    /\ ret' = <<>>
    /\ pc' = "done"
    /\ UNCHANGED <<current, idx, canvas, normalized, rgb_data, error, engine, prev, ui>>

\* KochGenerator.generate: geom is all_points, before the closing point
KochGenerate ==
    /\ pc = "idle"
    /\ \E w \in 1..MaxSide, h \in 1..MaxSide, depth \in 0..MaxDepth, size \in Sizes,
          sx \in Starts, sy \in Starts, angle \in Angles :
        LET r == CurveRequest(w, h, depth, size, sx, sy, angle, "recursive", 0)
        IN  /\ call' = [op |-> "Koch Snowflake", req |-> r, vertices |-> koch_vertices(r)]
            /\ geom' = <<koch_all_points(r)>>
            /\ ret' = KochGenerator_generate(r)
    /\ pc' = "done"
    /\ UNCHANGED <<current, idx, canvas, normalized, rgb_data, error, engine, prev, ui>>

\* SierpinskiGenerator.generate, method 'recursive': geom is the list of the
\* triangles _draw_sierpinski_recursive fills
SierpinskiRecursive ==
    /\ pc = "idle"
    /\ \E w \in 1..MaxSide, h \in 1..MaxSide, depth \in 0..MaxDepth, size \in Sizes,
          sx \in Starts, sy \in Starts :
        LET r == CurveRequest(w, h, depth, size, sx, sy, 0, "recursive", 0)
            vertices == triangle_vertices(w, h, size, sx, sy)
        IN  /\ call' = [op |-> "Sierpinski", req |-> r, vertices |-> vertices]
            /\ geom' = draw_sierpinski_recursive(vertices, depth)
            /\ ret' = recursive_method(r)
    /\ pc' = "done"
    /\ UNCHANGED <<current, idx, canvas, normalized, rgb_data, error, engine, prev, ui>>

NextCurve == KochCurve \/ KochGenerate \/ SierpinskiRecursive \/ Return

SpecCurve == InitIdle /\ [][NextCurve]_vars

---------------------------------------------------------------------------
(* Claims about the recursive curve generators *)

Pow(b, e) == b ^ e

KochCurveDone == pc = "done" /\ call.op = "_koch_curve"

\* C5: _koch_curve(start, end, depth) returns exactly [start, end] at depth 0
\* and, for every depth d >= 0, a list of exactly 4^d + 1 points.
C5_KochCurveLength ==
    KochCurveDone =>
        /\ Len(geom[1]) = Pow(4, call.depth) + 1
        /\ call.depth = 0 => geom[1] = <<call.start, call.end>>

\* a depth-2 curve between two different points has been built
C5_Witness ==
    /\ KochCurveDone /\ call.depth = 2 /\ call.start # call.end
    /\ Len(geom[1]) = 17

KochDone == pc = "done" /\ call.op = "Koch Snowflake"

\* C6: in KochGenerator.generate with depth 0 the assembled path all_points is
\* exactly the three triangle vertices in order; for depth d it has 3 * 4^d points.
C6_SnowflakePath ==
    KochDone =>
        /\ Len(geom[1]) = 3 * Pow(4, call.req.depth)
        /\ call.req.depth = 0 => geom[1] = call.vertices

\* a depth-0 snowflake of a rotated triangle has been assembled
C6_Witness ==
    /\ KochDone /\ call.req.depth = 0 /\ call.req.angle = 60
    /\ Len(geom[1]) = 3 /\ geom[1][1] # geom[1][2] /\ geom[1][2] # geom[1][3]

\* a depth-2 snowflake has been assembled
C6_DeepReached == KochDone /\ call.req.depth = 2 /\ Len(geom[1]) = 48

SierpinskiDone ==
    pc = "done" /\ call.op = "Sierpinski" /\ call.req.method = "recursive"

\* twice the signed area of the triangle t, in Q(sqrt 3)
SArea2(t) ==
    SSub(SMul(SSub(t[2][1], t[1][1]), SSub(t[3][2], t[1][2])),
         SMul(SSub(t[2][2], t[1][2]), SSub(t[3][1], t[1][1])))

SAbs(x) == IF SSign(x) < 0 THEN SNeg(x) ELSE x

\* the sum of the areas (doubled) of the triangles ts[lo..hi], by halves
RECURSIVE SumArea2(_, _, _)
SumArea2(ts, lo, hi) ==
    IF lo > hi THEN SInt(0)
    ELSE IF lo = hi THEN SAbs(SArea2(ts[lo]))
    ELSE LET mid == (lo + hi) \div 2
             half == [h \in 1..2 |->
                        SumArea2(ts, IF h = 1 THEN lo ELSE mid + 1, IF h = 1 THEN mid ELSE hi)]
         IN  SAdd(half[1], half[2])

\* p lies in the closed triangle t
InTriangle(p, t) ==
    LET d1 == SSign(SArea2(<<t[1], t[2], p>>))
        d2 == SSign(SArea2(<<t[2], t[3], p>>))
        d3 == SSign(SArea2(<<t[3], t[1], p>>))
    IN  ~ ((d1 < 0 \/ d2 < 0 \/ d3 < 0) /\ (d1 > 0 \/ d2 > 0 \/ d3 > 0))

\* t is the triangle V scaled by 1/2^d about some point, lying inside V
CornerCopy(t, V, d) ==
    /\ \A k \in 2..3 : \A c \in 1..2 :
          SSub(t[k][c], t[1][c]) = SDivInt(SSub(V[k][c], V[1][c]), Pow(2, d))
    /\ \A k \in 1..3 : InTriangle(t[k], V)

\* C7: _draw_sierpinski_recursive at depth d fills exactly 3^d triangles, each a
\* corner sub-triangle of d successive midpoint subdivisions (a copy of the
\* initial triangle scaled by 1/2^d, inside it, no two the same), and their
\* exact areas sum to (3/4)^d of the initial triangle's area.
C7_SierpinskiTriangles ==
    SierpinskiDone =>
        LET d == call.req.depth
            V == call.vertices
        IN  /\ Len(geom) = Pow(3, d)
            /\ \A k \in 1..Len(geom) : CornerCopy(geom[k], V, d)
            /\ \A k \in 1..Len(geom) : \A m \in 1..Len(geom) :
                  k # m => geom[k] # geom[m]
            /\ SMul(SInt(Pow(4, d)), SumArea2(geom, 1, Len(geom)))
                 = SMul(SInt(Pow(3, d)), SAbs(SArea2(V)))

\* nine triangles of positive area have been filled at depth 2
C7_Witness ==
    /\ SierpinskiDone /\ call.req.depth = 2 /\ Len(geom) = 9
    /\ SSign(SumArea2(geom, 1, Len(geom))) > 0

---------------------------------------------------------------------------
(* Sierpinski chaos game, SierpinskiGenerator._chaos_game_method *)

BurnIn == 100

\* a move that forgets to halve, and so leaves the triangle, against C8
chaos_move_unhalved(cur, target) ==
    <<SAdd(cur[1], target[1]), SAdd(cur[2], target[2])>>

\* current_x = (current_x + target_x) / 2; current_y = (current_y + target_y) / 2
chaos_move(cur, target) ==
    <<SDivInt(SAdd(cur[1], target[1]), 2), SDivInt(SAdd(cur[2], target[2]), 2)>>

\* a drawing whose burn-in is two iterations shorter, against C21
chaos_draw_early(image, k, cur) ==
    IF k > BurnIn - 2 /\ InImage(image, <<int(cur[1]), int(cur[2])>>)
      THEN Paint(image, rectangle_pixels(int(cur[1]), int(cur[2])))
      ELSE image

\* the drawing of iteration k at the point cur: nothing up to the burn-in, then
\* a 3x3 square when the truncated point is inside the image
chaos_draw(image, k, cur) ==
    IF k > BurnIn /\ InImage(image, <<int(cur[1]), int(cur[2])>>)
      THEN Paint(image, rectangle_pixels(int(cur[1]), int(cur[2])))
      ELSE image

\* generate(method='chaos_game'): the image, the vertices and the starting point
\* The keyword arguments generate does not name are collected in **kwargs; the
\* caller passes a seed there.  A caller that kept a finished game calls again
\* with the same arguments.
ChaosStart ==
    /\ pc = "idle"
    /\ \E w \in 1..MaxSide, h \in 1..MaxSide, size \in Sizes, sx \in Starts,
          n \in 1..MaxPoints, seed \in Seeds :
        LET r == CurveRequest(w, h, 7, size, sx, SInt(0), 0, "chaos_game", n)
        IN  /\ prev # <<>> => (prev[1].req = r /\ prev[1].kwargs = [seed |-> seed])
            /\ call' = [op |-> "Sierpinski", req |-> r, kwargs |-> [seed |-> seed],
                        vertices |-> triangle_vertices(w, h, size, sx, SInt(0))]
            /\ canvas' = Image_new(w, h)
            /\ current' = <<SAdd(SInt(w \div 2), sx), SInt(h \div 2)>>
    /\ idx' = 0
    /\ pc' = "chaos"
    /\ UNCHANGED <<ret, geom, normalized, rgb_data, error, engine, prev, ui>>

\* one iteration of the loop; vertex_idx is random.randint(0, 2)
ChaosStep ==
    /\ pc = "chaos"
    /\ idx < call.req.num_points
    /\ \E vertex_idx \in 0..2 :
        /\ current' = chaos_move(current, call.vertices[vertex_idx + 1])
        /\ canvas' = chaos_draw(canvas, idx, chaos_move(current, call.vertices[vertex_idx + 1]))
    /\ idx' = idx + 1
    /\ UNCHANGED <<pc, call, ret, geom, normalized, rgb_data, error, engine, prev, ui>>

\* the loop is over: the image is returned as grayscale
ChaosReturn ==
    /\ pc = "chaos"
    /\ idx = call.req.num_points
    /\ ret' = grayscale(canvas)
    /\ pc' = "done"
    /\ UNCHANGED <<call, geom, current, idx, canvas, normalized, rgb_data, error, engine, prev, ui>>

\* the caller takes the result of a game of at most MaxKept points and keeps
\* it, with the arguments of the call and the point the game ended on
ChaosKeep ==
    /\ pc = "done"
    /\ call.op = "Sierpinski" /\ call.req.method = "chaos_game"
    /\ call.req.num_points <= MaxKept
    /\ prev = <<>>
    /\ prev' = <<[req |-> call.req, kwargs |-> call.kwargs, current |-> current, ret |-> ret]>>
    /\ pc' = "idle"
    /\ call' = NoCall
    /\ ret' = <<>>
    /\ current' = NoPoint
    /\ idx' = 0
    /\ canvas' = NoImage
    /\ UNCHANGED <<geom, normalized, rgb_data, error, engine, ui>>

\* the offsets start_x, start_y of the long games: whole and half pixels, left
\* of, inside and right of the image
LongStarts == {SInt(-1), SDivInt(SInt(-1), 2), SInt(0), SInt(3)}
                \X {SDivInt(SInt(-1), 2), SInt(0)}

\* generate(method='chaos_game', size=0) with num_points around the burn-in:
\* the three vertices fall on the centre, which is the starting point, so the
\* point of every iteration is the centre, whatever vertex is chosen
ChaosStartLong ==
    /\ pc = "idle"
    /\ prev = <<>>
    /\ \E w \in 1..MaxSide, h \in 1..MaxSide, start \in LongStarts,
          n \in (BurnIn - 1)..MaxLong, seed \in Seeds :
        LET sx == start[1]
            sy == start[2]
            r == CurveRequest(w, h, 7, SInt(0), sx, sy, 0, "chaos_game", n)
        IN  /\ call' = [op |-> "Sierpinski", req |-> r, kwargs |-> [seed |-> seed],
                        vertices |-> triangle_vertices(w, h, SInt(0), sx, sy)]
            /\ canvas' = Image_new(w, h)
            /\ current' = <<SAdd(SInt(w \div 2), sx), SAdd(SInt(h \div 2), sy)>>
    /\ idx' = 0
    /\ pc' = "chaos"
    /\ UNCHANGED <<ret, geom, normalized, rgb_data, error, engine, prev, ui>>

NextChaos == ChaosStart \/ ChaosStep \/ ChaosReturn \/ Return

NextBurn == ChaosStartLong \/ ChaosStep \/ ChaosReturn \/ Return

SpecBurn == InitIdle /\ [][NextBurn]_vars

NextSeed == ChaosStart \/ ChaosStep \/ ChaosReturn \/ ChaosKeep \/ Return

SpecSeed == InitIdle /\ [][NextSeed]_vars

SpecChaos == InitIdle /\ [][NextChaos]_vars

InChaosGame == pc = "chaos" \/ (pc = "done" /\ call.op = "Sierpinski"
                                  /\ call.req.method = "chaos_game")

\* C8: in the Sierpinski chaos game, for every sequence of vertex choices, the
\* current point after every step lies inside the closed triangle spanned by
\* the three vertices.
C8_ChaosStaysInHull ==
    InChaosGame => InTriangle(current, call.vertices)

\* three steps toward vertices have been taken and the point has moved off the
\* starting point
C8_Witness ==
    /\ pc = "chaos" /\ idx = 3
    /\ current # <<SAdd(SInt(call.req.width \div 2), call.req.start_x),
                   SInt(call.req.height \div 2)>>
    /\ current \notin {call.vertices[1], call.vertices[2], call.vertices[3]}


SecondGame ==
    /\ pc = "done" /\ call.op = "Sierpinski" /\ call.req.method = "chaos_game"
    /\ prev # <<>>

\* C16: the chaos game draws its vertex choices from an explicit seedable
\* generator parameter: two calls of generate with method 'chaos_game',
\* identical request parameters and the same seed make the same choices, so
\* that they end on the same point and return identical fields.
C16_SameSeedSameGame ==
    (SecondGame /\ prev[1].req = call.req /\ prev[1].kwargs = call.kwargs) =>
        (current = prev[1].current /\ ret = prev[1].ret)

\* two one-point games with the same arguments and the same seed have moved
\* toward different vertices
C16_DifferentChoices ==
    /\ SecondGame /\ call.req.num_points = 1
    /\ prev[1].req = call.req /\ prev[1].kwargs.seed = 1 /\ call.kwargs.seed = 1
    /\ prev[1].current = chaos_move(<<SAdd(SInt(call.req.width \div 2), call.req.start_x),
                                      SInt(call.req.height \div 2)>>, call.vertices[1])
    /\ current = chaos_move(<<SAdd(SInt(call.req.width \div 2), call.req.start_x),
                              SInt(call.req.height \div 2)>>, call.vertices[3])

\* within the first BurnIn + 1 iterations nothing is drawn: the fields of the
\* two games are both black
C16_FieldsBlack ==
    SecondGame => (ret = prev[1].ret /\ canvas.white = {})

\* every cell of the field is zero
AllZero(field) ==
    \A i \in 1..Len(field) : \A j \in 1..Len(field[i]) : field[i][j] = Num(RInt(0))

\* C21: in the Sierpinski chaos game no point produced during the burn-in
\* prefix, the iterations of index 0..99, is drawn: the image is black as long
\* as at most 100 iterations have run, and for num_points <= 100 the returned
\* field is all zero.
C21_BurnInNotDrawn ==
    InChaosGame =>
        /\ idx <= BurnIn => canvas.white = {}
        /\ (pc = "done" /\ call.req.num_points <= BurnIn) => AllZero(ret)

\* a game of exactly 100 points whose point lies inside the image has returned
\* a field of zeros
C21_Witness ==
    /\ pc = "done" /\ call.op = "Sierpinski" /\ call.req.method = "chaos_game"
    /\ call.req.num_points = BurnIn /\ idx = BurnIn
    /\ InImage(canvas, <<int(current[1]), int(current[2])>>)
    /\ ret # <<>> /\ AllZero(ret)

\* a game of 102 points with the same point has drawn it
C21_DrawnAfterBurnIn ==
    /\ pc = "done" /\ call.op = "Sierpinski" /\ call.req.method = "chaos_game"
    /\ call.req.num_points = BurnIn + 2
    /\ ~ AllZero(ret)

\* the real coordinates of p lie outside [0, width) x [0, height)
OutsideRaster(img, p) ==
    ~ (/\ SLeq(SInt(0), p[1]) /\ SLess(p[1], SInt(img.size[1]))
       /\ SLeq(SInt(0), p[2]) /\ SLess(p[2], SInt(img.size[2])))

\* C22: in the Sierpinski chaos game a point whose real coordinates lie
\* outside [0, width) x [0, height) produces no mark on the field: the
\* iteration that moves to such a point leaves the image as it was.
C22_OutsideMakesNoMark ==
    [][(pc = "chaos" /\ idx' = idx + 1 /\ OutsideRaster(canvas, current'))
          => canvas' = canvas]_vars

\* the point (-1/2, 0) of a game on a one-pixel image has been drawn after the
\* burn-in: int() truncates -1/2 to 0, which passes the bounds test
C22_OutsideMarked ==
    /\ pc = "chaos" /\ idx = BurnIn + 2
    /\ current = <<SDivInt(SInt(-1), 2), SInt(0)>>
    /\ OutsideRaster(canvas, current)
    /\ canvas.white = {<<0, 0>>}

\* a point left of -1 or right of the image is clipped without a mark
C22_ClippedReached ==
    /\ pc = "done" /\ call.op = "Sierpinski" /\ call.req.method = "chaos_game"
    /\ call.req.num_points = BurnIn + 2
    /\ current[1] \in {SInt(-1), SInt(3)}
    /\ canvas.white = {} /\ error = ""

---------------------------------------------------------------------------
(* Colouring, FractalGenerator.apply_colormap *)

\* a lookup whose fallback is the gray palette, against C11
color_schemes_get_gray(self, color_scheme) ==
    IF color_scheme \in DOMAIN self.color_schemes
      THEN self.color_schemes[color_scheme]
      ELSE "gray"

\* self.color_schemes.get(color_scheme, plt.cm.hot)
color_schemes_get(self, color_scheme) ==
    IF color_scheme \in DOMAIN self.color_schemes
      THEN self.color_schemes[color_scheme]
      ELSE "hot"

ValRat(v) == [n |-> v.p, d |-> v.q]
Cells(data) == {<<i, j>> : i \in 1..Rows(data), j \in 1..Cols(data)}

\* data.max() and data.min() of a non-empty numeric array
data_max(data) ==
    LET c == CHOOSE c \in Cells(data) : \A e \in Cells(data) :
                 RLeq(ValRat(data[e[1]][e[2]]), ValRat(data[c[1]][c[2]]))
    IN  ValRat(data[c[1]][c[2]])

data_min(data) ==
    LET c == CHOOSE c \in Cells(data) : \A e \in Cells(data) :
                 RLeq(ValRat(data[c[1]][c[2]]), ValRat(data[e[1]][e[2]]))
    IN  ValRat(data[c[1]][c[2]])

\* (data - lo) / (hi - lo), element by element
rescale(data, lo, hi) ==
    [i \in 1..Rows(data) |-> [j \in 1..Cols(data) |->
        Num(RDiv(RSub(ValRat(data[i][j]), lo), RSub(hi, lo)))]]

\* a normalization that guards the division by adding 1 to the range, and so
\* never reaches the value 1, against C9
normalize_guarded(data) ==
    IF RLess(data_min(data), data_max(data))
      THEN rescale(data, data_min(data), RAdd(data_max(data), RInt(1)))
      ELSE data

\* if data.max() > data.min(): normalized = (data - min) / (max - min)
\* else: normalized = data
normalize(data) ==
    IF RLess(data_min(data), data_max(data))
      THEN rescale(data, data_min(data), data_max(data))
      ELSE data

\* size of a matplotlib colormap's lookup table
LutSize == 256

\* the table index a colormap gives a float x: int(x * N), with x = 1 sent to
\* N - 1; values below 0 and above 1 take the under and over colours, which are
\* the table's two end colours
lut_index(x) ==
    IF RLess(x, RInt(0)) THEN 0
    ELSE IF RLeq(RInt(1), x) THEN LutSize - 1
    ELSE (x.n * LutSize) \div x.d

\* (colormap(normalized)[:, :, :3] * 255).astype(np.uint8): every pixel is the
\* colour the palette's table holds at the value's index.  The tables are
\* matplotlib's; a pixel is named by its palette and its index.
colorize(colormap, field) ==
    [i \in 1..Rows(field) |-> [j \in 1..Cols(field) |->
        [cmap |-> colormap, index |-> lut_index(ValRat(field[i][j]))]]]

\* the numbers found in the fields coloured on their own
FieldValues == {Num(RInt(-1)), Num(RInt(0)), Num(Rat(1, 2)), Num(RInt(7))}

\* the non-empty h x w arrays over FieldValues with at most MaxCells cells
Shapes == {s \in (1..MaxCells) \X (1..MaxCells) : s[1] * s[2] <= MaxCells}
Fields == UNION {[1..s[1] -> [1..s[2] -> FieldValues]] : s \in Shapes}

\* the registered palette names and two names that are not registered
SchemeNames == DOMAIN color_schemes \cup {"Neon", "classic"}

\* an apply_colormap that normalizes the caller's array in place, against C17
apply_colormap_in_place(self, data, color_scheme) ==
    [data |-> normalize(data),
     normalized |-> normalize(data),
     rgb_data |-> colorize(color_schemes_get(self, color_scheme), normalize(data))]

\* FractalGenerator.apply_colormap on a non-empty numeric array: the caller's
\* array as the call leaves it (it is only read: the subtraction and division
\* allocate their result, and the colormap copies its argument), its local
\* normalized and its returned rgb_data
apply_colormap(self, data, color_scheme) ==
    [data |-> data,
     normalized |-> normalize(data),
     rgb_data |-> colorize(color_schemes_get(self, color_scheme), normalize(data))]

\* apply_colormap(data, color_scheme); left is the caller's array after the call
ApplyColormap ==
    /\ pc = "idle"
    /\ \E data \in Fields, color_scheme \in SchemeNames :
        /\ call' = [op |-> "apply_colormap", data |-> data, color_scheme |-> color_scheme,
                    left |-> apply_colormap(engine, data, color_scheme).data]
        /\ normalized' = apply_colormap(engine, data, color_scheme).normalized
        /\ rgb_data' = apply_colormap(engine, data, color_scheme).rgb_data
    /\ pc' = "done"
    /\ UNCHANGED <<ret, geom, current, idx, canvas, error, engine, prev, ui>>

NextColor == ApplyColormap \/ Return

SpecColor == InitIdle /\ [][NextColor]_vars

ColormapDone == pc = "done" /\ call.op = "apply_colormap"

IsConstant(data) == data_max(data) = data_min(data)

\* C9: the normalization step of apply_colormap is idempotent: normalizing the
\* normalized field gives the normalized field again, for constant and
\* non-constant fields alike.
C9_NormalizeIdempotent ==
    ColormapDone => normalize(normalized) = normalized

\* a non-constant field whose values were all moved by the normalization
C9_Witness ==
    /\ ColormapDone
    /\ ~ IsConstant(call.data)
    /\ \A c \in Cells(call.data) : normalized[c[1]][c[2]] # call.data[c[1]][c[2]]

\* a constant field, which the normalization leaves as it is
C9_ConstantReached ==
    /\ ColormapDone
    /\ IsConstant(call.data)
    /\ Cols(call.data) > 1
    /\ normalized = call.data

\* C10: when the field handed to the normalizer is constant (max == min), every
\* value is mapped to the midpoint 1/2 of [0,1], whatever the constant.
C10_ConstantToMidpoint ==
    (ColormapDone /\ IsConstant(call.data)) =>
        \A c \in Cells(call.data) : normalized[c[1]][c[2]] = Num(Rat(1, 2))

\* C10, weaker reading: a constant field is at least mapped into [0,1].
C10_ConstantInUnitInterval ==
    (ColormapDone /\ IsConstant(call.data)) =>
        \A c \in Cells(call.data) :
            /\ RLeq(RInt(0), ValRat(normalized[c[1]][c[2]]))
            /\ RLeq(ValRat(normalized[c[1]][c[2]]), RInt(1))


\* C11: apply_colormap called with a color_scheme name that is not a registered
\* palette name does not fail: it uses the default palette, the one registered
\* as 'Classic' and as 'Hot', and returns the image that default returns.
C11_UnknownSchemeFallsBack ==
    (ColormapDone /\ call.color_scheme \notin DOMAIN engine.color_schemes) =>
        /\ error = ""
        /\ rgb_data = apply_colormap(engine, call.data, "Classic").rgb_data
        /\ rgb_data = apply_colormap(engine, call.data, "Hot").rgb_data

\* an unregistered name given with a non-constant field: the image has pixels
\* at both ends of the hot palette
C11_Witness ==
    /\ ColormapDone
    /\ call.color_scheme = "Neon"
    /\ \E c, e \in Cells(call.data) :
        /\ rgb_data[c[1]][c[2]] = [cmap |-> "hot", index |-> 0]
        /\ rgb_data[e[1]][e[2]] = [cmap |-> "hot", index |-> LutSize - 1]

\* the other unregistered name, which differs from 'Classic' by its case only
C11_CaseReached ==
    ColormapDone /\ call.color_scheme = "classic" /\ rgb_data[1][1].cmap = "hot"

---------------------------------------------------------------------------
(* FractalGenerator.generate_fractal and create_fractal_image *)

\* the fractal types whose generator the model holds, and two names that are
\* not keys of self.generators (the second is the name the window uses)
FractalTypes ==
    {"Mandelbrot Set", "Julia Set", "Koch Snowflake", "Sierpinski",
     "Lyapunov", "Sierpinski Triangle"}

\* the regions of the requests handed to the engine: the corners are taken as
\* they are given, in order or not
RequestRegions ==
    {[x_min |-> RInt(xs[1]), x_max |-> RInt(xs[2]),
      y_min |-> RInt(ys[1]), y_max |-> RInt(ys[2])] :
        xs, ys \in {<<0, 2>>, <<2, -2>>, <<1, 1>>}}

\* the keyword arguments handed to the engine with a fractal type: for the
\* escape-time types any raster sides from -1 on and any region, for the curve
\* types a small valid request
Params(fractal_type) ==
    IF fractal_type \in {"Koch Snowflake", "Sierpinski"}
      THEN {CurveRequest(w, h, depth, SInt(2), SInt(0), SInt(0), angle, "recursive", 1) :
               w \in 1..2, h \in 1..2, depth \in 0..1, angle \in {0, 60}}
      ELSE {EscapeRequest(w, h, g, mi, RInt(2), RInt(-1), RInt(0)) :
               w \in -1..2, h \in -1..2, g \in RequestRegions, mi \in 1..2}

\* self.generators[fractal_type].generate(**params).  np.linspace raises
\* ValueError for a negative number of samples, before any array exists; a
\* side of 0 gives an array without cells.
generate(fractal_type, r) ==
    IF r.width < 0 \/ r.height < 0
      THEN [error |-> "ValueError", ret |-> <<>>]
      ELSE [error |-> "",
            ret |-> CASE fractal_type = "Mandelbrot Set" -> MandelbrotGenerator_generate(r)
                      [] fractal_type = "Julia Set" -> JuliaGenerator_generate(r)
                      [] fractal_type = "Koch Snowflake" -> KochGenerator_generate(r)
                      [] fractal_type = "Sierpinski" -> recursive_method(r)]

\* a dispatch that hands an unregistered type to the Mandelbrot generator,
\* against C12
generate_fractal_lenient(self, fractal_type, r) ==
    LET known == IF fractal_type \in DOMAIN self.generators
                   THEN fractal_type ELSE "Mandelbrot Set"
    IN  [error |-> generate(known, r).error,
         ret |-> generate(known, r).ret,
         invoked |-> <<self.generators[known]>>]

\* generate_fractal(fractal_type, **params): the exception raised, the array
\* returned and the generators whose generate was called
generate_fractal(self, fractal_type, r) ==
    IF fractal_type \in DOMAIN self.generators
      THEN [error |-> generate(fractal_type, r).error,
            ret |-> generate(fractal_type, r).ret,
            invoked |-> <<self.generators[fractal_type]>>]
      ELSE [error |-> "ValueError", ret |-> <<>>, invoked |-> <<>>]

\* params.pop('color_scheme', 'Classic') on the keyword arguments, in which
\* color_scheme is given (<<name>>) or not (<<>>)
pop_color_scheme(given) == IF given = <<>> THEN "Classic" ELSE given[1]

\* every value of the array is a number
Numeric(f) == \A i \in 1..Len(f) : \A j \in 1..Len(f[i]) : f[i][j].kind = "num"

\* create_fractal_image after generate_fractal has ended with g: the exception
\* of generate_fractal passes through; data.max() raises ValueError on an array
\* without cells
colored_image(self, g, color_scheme) ==
    IF g.error # ""
      THEN [error |-> g.error, fractal_data |-> <<>>, normalized |-> <<>>, rgb_data |-> <<>>]
    ELSE IF Cells(g.ret) = {}
      THEN [error |-> "ValueError", fractal_data |-> <<>>, normalized |-> <<>>, rgb_data |-> <<>>]
    ELSE [error |-> "", fractal_data |-> apply_colormap(self, g.ret, color_scheme).data,
          normalized |-> apply_colormap(self, g.ret, color_scheme).normalized,
          rgb_data |-> apply_colormap(self, g.ret, color_scheme).rgb_data]

\* generate_fractal(fractal_type, **params)
GenerateFractal ==
    /\ pc = "idle"
    /\ \E fractal_type \in FractalTypes :
       \E r \in Params(fractal_type) :
       \E g \in {generate_fractal(engine, fractal_type, r)} :
        /\ Representable(g.ret)
        /\ call' = [op |-> "generate_fractal", fractal_type |-> fractal_type,
                    req |-> r, color_scheme |-> <<>>, invoked |-> g.invoked]
        /\ ret' = g.ret
        /\ error' = g.error
    /\ pc' = "done"
    /\ UNCHANGED <<geom, current, idx, canvas, normalized, rgb_data, engine, prev, ui>>

\* create_fractal_image(fractal_type, **params), on the requests whose field is
\* numeric
CreateFractalImage ==
    /\ pc = "idle"
    /\ \E fractal_type \in FractalTypes, given \in {<<>>, <<"Cool">>, <<"Neon">>} :
       \E r \in Params(fractal_type) :
       \E g \in {generate_fractal(engine, fractal_type, r)} :
       \E o \in {colored_image(engine, g, pop_color_scheme(given))} :
        /\ Representable(g.ret) /\ Numeric(g.ret)
        /\ call' = [op |-> "create_fractal_image", fractal_type |-> fractal_type,
                    req |-> r, color_scheme |-> given, invoked |-> g.invoked]
        /\ ret' = o.fractal_data
        /\ normalized' = o.normalized
        /\ rgb_data' = o.rgb_data
        /\ error' = o.error
    /\ pc' = "done"
    /\ UNCHANGED <<geom, current, idx, canvas, engine, prev, ui>>

NextEngine == GenerateFractal \/ CreateFractalImage \/ ApplyColormap \/ Return

SpecEngine == InitIdle /\ [][NextEngine]_vars

EngineDone == pc = "done" /\ call.op \in {"generate_fractal", "create_fractal_image"}

\* C12: generate_fractal and create_fractal_image called with a fractal type
\* that is not registered raise an error before any generator is invoked, and
\* no field and no image is produced for that request.
C12_UnregisteredTypeRaises ==
    (EngineDone /\ call.fractal_type \notin DOMAIN engine.generators) =>
        /\ error = "ValueError"
        /\ call.invoked = <<>>
        /\ ret = <<>> /\ normalized = <<>> /\ rgb_data = <<>>

\* create_fractal_image has been called with the type name the window uses and
\* a valid 2x2 request, and has raised
C12_Witness ==
    /\ pc = "done" /\ call.op = "create_fractal_image"
    /\ call.fractal_type = "Sierpinski Triangle"
    /\ call.req.width = 2 /\ call.req.height = 2
    /\ RLess(call.req.x_min, call.req.x_max) /\ RLess(call.req.y_min, call.req.y_max)
    /\ error = "ValueError"

\* generate_fractal has raised for an unregistered type
C12_GenerateReached ==
    /\ pc = "done" /\ call.op = "generate_fractal"
    /\ call.fractal_type = "Lyapunov" /\ error = "ValueError"

\* a registered type with the same request produces a field and an image
C12_RegisteredReached ==
    /\ pc = "done" /\ call.op = "create_fractal_image"
    /\ call.fractal_type = "Julia Set" /\ error = ""
    /\ Rows(ret) = 2 /\ Cols(ret) = 2 /\ Rows(rgb_data) = 2

\* the region is empty or inverted, or a raster side is not positive
Malformed(r) ==
    \/ RLeq(r.x_max, r.x_min) \/ RLeq(r.y_max, r.y_min)
    \/ r.width <= 0 \/ r.height <= 0

EscapeDone == EngineDone /\ call.fractal_type \in {"Mandelbrot Set", "Julia Set"}

\* C13: a request with a malformed region (x_max <= x_min or y_max <= y_min) or
\* with width <= 0 or height <= 0 is rejected with an error before any
\* per-pixel computation starts (the error is to be InvalidRequest; the formula
\* accepts any), and no field or image is returned.
C13_MalformedRejected ==
    (EscapeDone /\ Malformed(call.req)) =>
        /\ error # ""
        /\ ret = <<>> /\ rgb_data = <<>>

\* a 2x2 field has been returned for a region whose x_max is below its x_min
C13_InvertedReached ==
    /\ EscapeDone /\ call.op = "generate_fractal"
    /\ RLess(call.req.x_max, call.req.x_min) /\ RLess(call.req.y_min, call.req.y_max)
    /\ error = "" /\ IsGrid(ret, 2, 2)

\* a request of width 0 has been answered without an error
C13_EmptyReached ==
    /\ EscapeDone /\ call.op = "generate_fractal"
    /\ call.req.width = 0 /\ call.req.height = 2
    /\ error = ""

\* a negative side is refused, by np.linspace
C13_NegativeReached ==
    EscapeDone /\ call.req.width = -1 /\ error = "ValueError" /\ ret = <<>>

\* C17: the engine carries no state between calls: any sequence of
\* generate_fractal, apply_colormap and create_fractal_image calls leaves the
\* generators table, the color_schemes table and the caller's input field
\* unchanged; every call starts from the state the first call started from,
\* and the result of a request is the one the freshly constructed engine gives.
C17_NoStateCarried ==
    /\ engine = FractalGenerator_init
    /\ pc = "idle" =>
        /\ call = NoCall /\ ret = <<>> /\ error = ""
        /\ geom = <<>> /\ current = NoPoint /\ idx = 0 /\ canvas = NoImage
        /\ normalized = <<>> /\ rgb_data = <<>>
    /\ ColormapDone => call.left = call.data
    /\ EngineDone =>
        /\ error = generate_fractal(FractalGenerator_init, call.fractal_type, call.req).error
             \/ (call.op = "create_fractal_image" /\ error = "ValueError")
        /\ error = "" =>
             ret = generate_fractal(FractalGenerator_init, call.fractal_type, call.req).ret

\* create_fractal_image has returned a non-constant field, which its
\* apply_colormap call normalized to other values, and the image
C17_Witness ==
    /\ pc = "done" /\ call.op = "create_fractal_image" /\ error = ""
    /\ ~ IsConstant(ret)
    /\ normalized # ret
    /\ Rows(rgb_data) = Rows(ret)

\* apply_colormap on its own has left a non-constant input as it was
C17_InputReached ==
    /\ ColormapDone /\ ~ IsConstant(call.data)
    /\ normalized # call.data /\ call.left = call.data

---------------------------------------------------------------------------
(* The recursive curve generators at a depth whose output cannot be held: the
   recursion followed call by call along its first branch *)

\* the depths requested of the recursion followed call by call
DeepDepths == {20}

\* KochGenerator.generate up to its first call _koch_curve(vertices[0],
\* vertices[1], depth): geom holds the call's start and end, idx its depth
KochEnter ==
    /\ pc = "idle"
    /\ \E w \in 1..MaxSide, depth \in DeepDepths, size \in Sizes, sx \in Starts,
          angle \in Angles :
        LET r == CurveRequest(w, 2, depth, size, sx, SInt(0), angle, "recursive", 0)
        IN  /\ call' = [op |-> "Koch Snowflake", req |-> r, vertices |-> koch_vertices(r)]
            /\ geom' = <<<<koch_vertices(r)[1], koch_vertices(r)[2]>>>>
            /\ canvas' = Image_new(w, 2)
            /\ idx' = depth
    /\ pc' = "koch"
    /\ UNCHANGED <<ret, current, normalized, rgb_data, error, engine, prev, ui>>

\* _koch_curve(start, end, depth) with depth # 0, up to its first recursive
\* call _koch_curve(p1, p2, depth - 1)
KochSubdivide ==
    /\ pc = "koch"
    /\ idx # 0
    /\ call.req.depth - idx < MaxDescent
    /\ geom' = <<<<geom[1][1], koch_p2(geom[1][1], geom[1][2])>>>>
    /\ idx' = idx - 1
    /\ UNCHANGED <<pc, call, ret, current, canvas, normalized, rgb_data, error, engine, prev, ui>>

\* SierpinskiGenerator.generate with method 'recursive' up to its call
\* _draw_sierpinski_recursive(draw, vertices, depth): geom holds the call's
\* vertices, idx its depth
SierpinskiEnter ==
    /\ pc = "idle"
    /\ \E w \in 1..MaxSide, depth \in DeepDepths, size \in Sizes, sx \in Starts :
        LET r == CurveRequest(w, 2, depth, size, sx, SInt(0), 0, "recursive", 0)
            vertices == triangle_vertices(w, 2, size, sx, SInt(0))
        IN  /\ call' = [op |-> "Sierpinski", req |-> r, vertices |-> vertices]
            /\ geom' = <<vertices>>
            /\ canvas' = Image_new(w, 2)
            /\ idx' = depth
    /\ pc' = "sierpinski"
    /\ UNCHANGED <<ret, current, normalized, rgb_data, error, engine, prev, ui>>

\* _draw_sierpinski_recursive(draw, vertices, depth) with depth # 0, up to its
\* first recursive call, on triangle1
SierpinskiSubdivide ==
    /\ pc = "sierpinski"
    /\ idx # 0
    /\ call.req.depth - idx < MaxDescent
    /\ geom' = <<<<geom[1][1], Midpoint(geom[1][1], geom[1][2]),
                   Midpoint(geom[1][3], geom[1][1])>>>>
    /\ idx' = idx - 1
    /\ UNCHANGED <<pc, call, ret, current, canvas, normalized, rgb_data, error, engine, prev, ui>>

NextDepth == KochEnter \/ KochSubdivide \/ SierpinskiEnter \/ SierpinskiSubdivide

SpecDepth == InitIdle /\ [][NextDepth]_vars

DeepCall == pc \in {"koch", "sierpinski"} /\ call.req.depth = 20

\* C14: requesting depth = 20 on a recursive curve generator (KochGenerator.generate,
\* SierpinskiGenerator.generate with method 'recursive') fails with a
\* DepthOverflow error and performs no recursive subdivision.
C14_DepthOverflow ==
    DeepCall => (error = "DepthOverflow" /\ idx = call.req.depth)

\* the Koch recursion has gone MaxDescent levels down at depth 20 without an
\* error: the side it works on is 3^MaxDescent times shorter than the first
C14_KochSubdivided ==
    /\ pc = "koch" /\ call.req.depth = 20 /\ error = ""
    /\ idx = 20 - MaxDescent
    /\ geom[1][1] = call.vertices[1] /\ geom[1][2] # call.vertices[2]

\* the Sierpinski recursion likewise
C14_SierpinskiSubdivided ==
    /\ pc = "sierpinski" /\ call.req.depth = 20 /\ error = ""
    /\ idx = 20 - MaxDescent
    /\ geom[1][1] = call.vertices[1] /\ geom[1][3] # call.vertices[3]

---------------------------------------------------------------------------
(* The engine, FractalGenerator.generate_fractal over the registered generators *)

Next ==
    \/ MandelbrotGenerate
    \/ JuliaGenerate
    \/ KochGenerate
    \/ SierpinskiRecursive
    \/ ChaosStart
    \/ ChaosStep
    \/ ChaosReturn
    \/ ApplyColormap
    \/ Return

Spec == InitIdle /\ [][Next]_vars

GenerateDone ==
    pc = "done" /\ call.op \in {"Mandelbrot Set", "Julia Set", "Koch Snowflake", "Sierpinski"}

\* C1: for every valid request and each of the generators (Mandelbrot, Julia,
\* Koch, Sierpinski with method 'recursive' or 'chaos_game') the returned scalar
\* field is a grid of exactly height rows and width columns.
C1_FieldShape ==
    GenerateDone => IsGrid(ret, call.req.height, call.req.width)

\* a generator has returned a field for a request that is wider than high
C1_Witness ==
    /\ GenerateDone
    /\ call.req.width = 3 /\ call.req.height = 2
    /\ Rows(ret) = 2 /\ Cols(ret) = 3

\* each generator has returned a field that is higher than wide
C1_MandelbrotReached == GenerateDone /\ call.op = "Mandelbrot Set" /\ Rows(ret) > Cols(ret)
C1_JuliaReached == GenerateDone /\ call.op = "Julia Set" /\ Rows(ret) > Cols(ret)
C1_KochReached == GenerateDone /\ call.op = "Koch Snowflake" /\ Rows(ret) > Cols(ret)
C1_RecursiveReached ==
    GenerateDone /\ call.op = "Sierpinski" /\ call.req.method = "recursive" /\ Rows(ret) > Cols(ret)
C1_ChaosReached ==
    GenerateDone /\ call.op = "Sierpinski" /\ call.req.method = "chaos_game" /\ Rows(ret) > Cols(ret)

---------------------------------------------------------------------------
(* The window FractalGeneratorUI and its worker FractalGenerationThread, in  *)
(* src/fractal_generator.py and in src/mainUI.py.  The worker runs in its    *)
(* own thread; the signals it emits are queued and handled one at a time by  *)
(* the event loop of the window, which also handles the user's events.       *)

MaxRuns == 2

\* the entries of fractal_combo, in the order they are added
fractal_combo_items(m) ==
    IF m = "fractal_generator"
      THEN <<"Select Fractal Type...", "Mandelbrot Set", "Julia Set", "Koch Snowflake",
             "Sierpinski", "Dragon Curve", "Barnsley Fern", "Newton", "Burning Ship",
             "Test Pattern">>
      ELSE <<"Select Fractal Type...", "Mandelbrot Set", "Julia Set", "Koch Snowflake",
             "Sierpinski Triangle", "Dragon Curve", "Barnsley Fern", "Newton Fractal",
             "Burning Ship">>

\* get_current_parameters() of module m with fractal_type selected: whether a
\* dictionary is returned (FALSE: None) and its keys.  In
\* fractal_generator.py the return statement stands inside the Sierpinski
\* branch.
get_current_parameters(m, fractal_type) ==
    LET base == {"width", "height", "color_scheme"}
        plane == {"x_min", "x_max", "y_min", "y_max", "max_iterations"}
    IN  IF m = "fractal_generator"
          THEN IF fractal_type = "Sierpinski"
                 THEN [dict |-> TRUE,
                       keys |-> base \cup {"depth", "size", "line_width", "method", "num_points"}]
                 ELSE [dict |-> FALSE, keys |-> {}]
          ELSE [dict |-> TRUE,
                keys |-> base \cup
                  (IF fractal_type \in {"Mandelbrot Set", "Julia Set", "Newton Fractal", "Burning Ship"}
                     THEN plane \cup {"escape_radius"} \cup
                          (IF fractal_type = "Julia Set" THEN {"c_real", "c_imag"}
                           ELSE IF fractal_type = "Newton Fractal" THEN {"polynomial", "tolerance"}
                           ELSE {})
                   ELSE IF fractal_type \in {"Koch Snowflake", "Sierpinski Triangle",
                                             "Dragon Curve", "Barnsley Fern"}
                     THEN {"depth", "size", "start_x", "start_y", "angle", "line_width"} \cup
                          (IF fractal_type = "Sierpinski Triangle" THEN {"method", "num_points"}
                           ELSE IF fractal_type = "Barnsley Fern" THEN {"num_points"}
                           ELSE {})
                   ELSE {})]

\* the ways self.generator.create_fractal_image(self.fractal_type, **self.params)
\* can end in the worker: "" when it returns the two arrays, else the exception.
\* ** on None is a TypeError; an unregistered type is the ValueError of
\* generate_fractal; a registered generator returns or raises on the values.
create_fractal_image_outcomes(self, fractal_type, params) ==
    IF ~ params.dict THEN {"TypeError"}
    ELSE IF fractal_type \notin DOMAIN self.generators THEN {"Unsupported fractal type"}
    ELSE {"", "Exception"}

\* main(): window = FractalGeneratorUI()
OpenWindow ==
    /\ ui.module = "none"
    /\ \E m \in {"fractal_generator", "mainUI"} : ui' = FractalGeneratorUI_init(m)
    /\ UNCHANGED <<pc, call, ret, geom, current, idx, canvas, normalized, rgb_data,
                   error, engine, prev>>

\* the user selects another entry of the combo, here the placeholder, the first
\* or the fourth fractal type: on_fractal_changed
FractalChanged ==
    /\ ui.module # "none"
    /\ \E i \in {1, 2, 5} :
        LET fractal_type == fractal_combo_items(ui.module)[i]
        IN  /\ fractal_type # ui.fractal_combo
            /\ ui' = [ui EXCEPT !.fractal_combo = fractal_type,
                                !.generate_button = (fractal_type # "Select Fractal Type...")]
    /\ UNCHANGED <<pc, call, ret, geom, current, idx, canvas, normalized, rgb_data,
                   error, engine, prev>>

\* the user edits the width box: the least value of its range
WidthEdited ==
    /\ ui.module # "none"
    /\ ui.width # 100
    /\ ui' = [ui EXCEPT !.width = 100]
    /\ UNCHANGED <<pc, call, ret, geom, current, idx, canvas, normalized, rgb_data,
                   error, engine, prev>>

\* on_reset_clicked: the parameter widgets get their defaults
ResetClicked ==
    /\ ui.module # "none"
    /\ ui' = [ui EXCEPT !.width = IF ui.module = "fractal_generator" THEN 600 ELSE 800]
    /\ UNCHANGED <<pc, call, ret, geom, current, idx, canvas, normalized, rgb_data,
                   error, engine, prev>>

\* a generation that starts a thread although one is running, against C25
GenerateClickedUnguarded ==
    /\ ui.module # "none"
    /\ ui.generate_button
    /\ Len(ui.threads) < MaxRuns
    /\ ui' = [ui EXCEPT !.progress_bar = [visible |-> TRUE, value |-> 0],
                        !.generate_button = FALSE,
                        !.threads = Append(@, [pc |-> "started",
                                               fractal_type |-> ui.fractal_combo,
                                               params |-> get_current_parameters(
                                                   ui.module, ui.fractal_combo),
                                               error |-> "", emitted |-> <<>>]),
                        !.generation_thread = Len(ui.threads) + 1]
    /\ UNCHANGED <<pc, call, ret, geom, current, idx, canvas, normalized, rgb_data,
                   error, engine, prev>>

\* the user clicks the enabled Generate button: on_generate_clicked.  While
\* generation_thread is running the handler returns at once; else it shows the
\* progress bar, disables the button, makes the thread and starts it.
GenerateClicked ==
    /\ ui.module # "none"
    /\ ui.generate_button
    /\ IF ui.generation_thread # 0 /\ ui.threads[ui.generation_thread].pc # "finished"
         THEN ui' = [ui EXCEPT !.returned_early = TRUE]
         ELSE /\ Len(ui.threads) < MaxRuns
              /\ ui' = [ui EXCEPT !.progress_bar = [visible |-> TRUE, value |-> 0],
                                  !.generate_button = FALSE,
                                  !.threads = Append(@, [pc |-> "started",
                                                         fractal_type |-> ui.fractal_combo,
                                                         params |-> get_current_parameters(
                                                             ui.module, ui.fractal_combo),
                                                         error |-> "", emitted |-> <<>>]),
                                  !.generation_thread = Len(ui.threads) + 1]
    /\ UNCHANGED <<pc, call, ret, geom, current, idx, canvas, normalized, rgb_data,
                   error, engine, prev>>

\* the user clicks the enabled Save button: on_save_clicked
SaveClicked ==
    /\ ui.module # "none"
    /\ ui.save_button
    /\ IF ui.current_image = 0
         THEN ui' = [ui EXCEPT !.message = "No Image"]
         ELSE ui' = [ui EXCEPT !.message = "Success"]
    /\ UNCHANGED <<pc, call, ret, geom, current, idx, canvas, normalized, rgb_data,
                   error, engine, prev>>

\* run, first step: self.progress_update.emit(10)
RunProgress10 ==
    /\ \E k \in 1..Len(ui.threads) :
        /\ ui.threads[k].pc = "started"
        /\ ui' = [ui EXCEPT !.threads[k].pc = "create",
                            !.threads[k].emitted = Append(@, "progress_update(10)"),
                            !.events = Append(@, [sig |-> "progress_update", value |-> 10,
                                                  text |-> "", run |-> k])]
    /\ UNCHANGED <<pc, call, ret, geom, current, idx, canvas, normalized, rgb_data,
                   error, engine, prev>>

\* run: create_fractal_image returns or raises
RunCreate ==
    /\ \E k \in 1..Len(ui.threads) :
        /\ ui.threads[k].pc = "create"
        /\ \E e \in create_fractal_image_outcomes(FractalGenerator_init,
                        ui.threads[k].fractal_type, ui.threads[k].params) :
            ui' = [ui EXCEPT !.threads[k].pc = IF e = "" THEN "emit100" ELSE "except",
                             !.threads[k].error = e]
    /\ UNCHANGED <<pc, call, ret, geom, current, idx, canvas, normalized, rgb_data,
                   error, engine, prev>>

\* run: self.progress_update.emit(100)
RunProgress100 ==
    /\ \E k \in 1..Len(ui.threads) :
        /\ ui.threads[k].pc = "emit100"
        /\ ui' = [ui EXCEPT !.threads[k].pc = "complete",
                            !.threads[k].emitted = Append(@, "progress_update(100)"),
                            !.events = Append(@, [sig |-> "progress_update", value |-> 100,
                                                  text |-> "", run |-> k])]
    /\ UNCHANGED <<pc, call, ret, geom, current, idx, canvas, normalized, rgb_data,
                   error, engine, prev>>

\* run: self.generation_complete.emit(colored_image, raw_data); the two arrays
\* of run k are both named k
RunComplete ==
    /\ \E k \in 1..Len(ui.threads) :
        /\ ui.threads[k].pc = "complete"
        /\ ui' = [ui EXCEPT !.threads[k].pc = "return",
                            !.threads[k].emitted = Append(@, "generation_complete"),
                            !.events = Append(@, [sig |-> "generation_complete", value |-> k,
                                                  text |-> "", run |-> k])]
    /\ UNCHANGED <<pc, call, ret, geom, current, idx, canvas, normalized, rgb_data,
                   error, engine, prev>>

\* an except clause that swallows the exception without a signal, against C28
RunErrorSilent ==
    /\ \E k \in 1..Len(ui.threads) :
        /\ ui.threads[k].pc = "except"
        /\ ui' = [ui EXCEPT !.threads[k].pc = "return"]
    /\ UNCHANGED <<pc, call, ret, geom, current, idx, canvas, normalized, rgb_data,
                   error, engine, prev>>

\* an except clause that reports full progress before the error, against C29
RunErrorAfterProgress ==
    /\ \E k \in 1..Len(ui.threads) :
        /\ ui.threads[k].pc = "except"
        /\ ui' = [ui EXCEPT !.threads[k].pc = "return",
                            !.threads[k].emitted = @ \o <<"progress_update(100)", "error_occurred">>,
                            !.events = @ \o <<[sig |-> "progress_update", value |-> 100,
                                               text |-> "", run |-> k],
                                              [sig |-> "error_occurred", value |-> 0,
                                               text |-> ui.threads[k].error, run |-> k]>>]
    /\ UNCHANGED <<pc, call, ret, geom, current, idx, canvas, normalized, rgb_data,
                   error, engine, prev>>

\* run: except Exception as e: self.error_occurred.emit(str(e))
RunError ==
    /\ \E k \in 1..Len(ui.threads) :
        /\ ui.threads[k].pc = "except"
        /\ ui' = [ui EXCEPT !.threads[k].pc = "return",
                            !.threads[k].emitted = Append(@, "error_occurred"),
                            !.events = Append(@, [sig |-> "error_occurred", value |-> 0,
                                                  text |-> ui.threads[k].error, run |-> k])]
    /\ UNCHANGED <<pc, call, ret, geom, current, idx, canvas, normalized, rgb_data,
                   error, engine, prev>>

\* run returns: from now on isRunning() is False
RunReturn ==
    /\ \E k \in 1..Len(ui.threads) :
        /\ ui.threads[k].pc = "return"
        /\ ui' = [ui EXCEPT !.threads[k].pc = "finished"]
    /\ UNCHANGED <<pc, call, ret, geom, current, idx, canvas, normalized, rgb_data,
                   error, engine, prev>>

\* the event loop delivers progress_update to progress_bar.setValue
DeliverProgress ==
    /\ ui.events # <<>>
    /\ Head(ui.events).sig = "progress_update"
    /\ ui' = [ui EXCEPT !.events = Tail(@),
                        !.progress_bar.value = Head(ui.events).value]
    /\ UNCHANGED <<pc, call, ret, geom, current, idx, canvas, normalized, rgb_data,
                   error, engine, prev>>

\* a completion handler that keeps the image but not the raw data, against C30
OnGenerationCompleteImageOnly ==
    /\ ui.events # <<>>
    /\ Head(ui.events).sig = "generation_complete"
    /\ ui' = [ui EXCEPT !.events = Tail(@),
                        !.current_image = Head(ui.events).value,
                        !.progress_bar.visible = FALSE,
                        !.generate_button = TRUE,
                        !.save_button = TRUE,
                        !.callbacks = Append(@, [name |-> "on_generation_complete",
                                                 run |-> Head(ui.events).run])]
    /\ UNCHANGED <<pc, call, ret, geom, current, idx, canvas, normalized, rgb_data,
                   error, engine, prev>>

\* the event loop delivers generation_complete: on_generation_complete
OnGenerationComplete ==
    /\ ui.events # <<>>
    /\ Head(ui.events).sig = "generation_complete"
    /\ ui' = [ui EXCEPT !.events = Tail(@),
                        !.current_image = Head(ui.events).value,
                        !.current_raw_data = Head(ui.events).value,
                        !.progress_bar.visible = FALSE,
                        !.generate_button = TRUE,
                        !.save_button = TRUE,
                        !.callbacks = Append(@, [name |-> "on_generation_complete",
                                                 run |-> Head(ui.events).run])]
    /\ UNCHANGED <<pc, call, ret, geom, current, idx, canvas, normalized, rgb_data,
                   error, engine, prev>>

\* the event loop delivers error_occurred: on_generation_error
OnGenerationError ==
    /\ ui.events # <<>>
    /\ Head(ui.events).sig = "error_occurred"
    /\ ui' = [ui EXCEPT !.events = Tail(@),
                        !.progress_bar.visible = FALSE,
                        !.generate_button = TRUE,
                        !.message = Head(ui.events).text,
                        !.callbacks = Append(@, [name |-> "on_generation_error",
                                                 run |-> Head(ui.events).run])]
    /\ UNCHANGED <<pc, call, ret, geom, current, idx, canvas, normalized, rgb_data,
                   error, engine, prev>>

NextUI ==
    \/ OpenWindow \/ FractalChanged \/ WidthEdited \/ ResetClicked
    \/ GenerateClicked \/ SaveClicked
    \/ RunProgress10 \/ RunCreate \/ RunProgress100 \/ RunComplete \/ RunError
    \/ RunReturn
    \/ DeliverProgress \/ OnGenerationComplete \/ OnGenerationError

SpecUI == InitIdle /\ [][NextUI]_vars

\* a started worker thread gets processor time until run has returned, and
\* the event loop of the window keeps handling the queued signals
SpecUILive ==
    /\ SpecUI
    /\ WF_vars(RunProgress10) /\ WF_vars(RunCreate) /\ WF_vars(RunProgress100)
    /\ WF_vars(RunComplete) /\ WF_vars(RunError) /\ WF_vars(RunReturn)
    /\ WF_vars(DeliverProgress) /\ WF_vars(OnGenerationComplete)
    /\ WF_vars(OnGenerationError)

\* the worker of run k has been started and run has not returned
Running(k) == k \in 1..Len(ui.threads) /\ ui.threads[k].pc # "finished"

\* the terminal callbacks handled for run k
Callbacks(k) == {i \in 1..Len(ui.callbacks) : ui.callbacks[i].run = k}

\* run k is in flight: started, and none of its terminal callbacks handled
InFlight(k) == k \in 1..Len(ui.threads) /\ Callbacks(k) = {}

\* C23: get_current_parameters returns, for every selectable fractal type, a
\* dictionary containing at least width, height and color_scheme: every
\* generation started on a real fractal type has such keyword parameters.
C23_ParametersWellFormed ==
    \A k \in 1..Len(ui.threads) :
        ui.threads[k].fractal_type # "Select Fractal Type..." =>
            /\ ui.threads[k].params.dict
            /\ {"width", "height", "color_scheme"} \subseteq ui.threads[k].params.keys

\* in the window of fractal_generator.py a generation of the Mandelbrot set
\* has ended in the error box of the TypeError
C23_TypeErrorShown ==
    /\ ui.module = "fractal_generator"
    /\ Len(ui.threads) = 1 /\ ui.threads[1].fractal_type = "Mandelbrot Set"
    /\ ~ ui.threads[1].params.dict
    /\ ui.message = "TypeError"

\* in the window of mainUI.py, and for Sierpinski in fractal_generator.py, the
\* parameters are a dictionary with the three keys
C23_DictionaryReached ==
    /\ Len(ui.threads) = 2
    /\ \A k \in 1..2 : /\ ui.threads[k].params.dict
                       /\ "color_scheme" \in ui.threads[k].params.keys
    /\ ui.threads[1].fractal_type # ui.threads[2].fractal_type

\* C24: every fractal type a user can select in the combo is a key of
\* FractalGenerator.generators: no generation of a selectable type ends with
\* 'Unsupported fractal type'.
C24_NoUnsupportedType ==
    \A k \in 1..Len(ui.threads) :
        ui.threads[k].fractal_type # "Select Fractal Type..." =>
            ui.threads[k].error # "Unsupported fractal type"

\* the window of mainUI.py has shown the error box for its entry
\* 'Sierpinski Triangle', which is not a key of generators
C24_UnsupportedShown ==
    /\ ui.module = "mainUI"
    /\ \E k \in 1..Len(ui.threads) :
          /\ ui.threads[k].fractal_type = "Sierpinski Triangle"
          /\ ui.threads[k].fractal_type \notin DOMAIN generators
    /\ ui.message = "Unsupported fractal type"

\* every entry of the combo of fractal_generator.py but the placeholder is a
\* key of generators
C24_FractalGeneratorEntriesRegistered ==
    ui.module = "fractal_generator" =>
        \A i \in 2..Len(fractal_combo_items(ui.module)) :
            fractal_combo_items(ui.module)[i] \in DOMAIN generators

\* C25: under any interleaving of Generate clicks, fractal-type changes and
\* worker progress at most one FractalGenerationThread is running at a time,
\* and an on_generate_clicked that finds a thread running starts nothing and
\* changes no state of the window.
C25_AtMostOneRunning ==
    /\ [](\A k \in 1..Len(ui.threads) : \A j \in 1..Len(ui.threads) :
             (Running(k) /\ Running(j)) => k = j)
    /\ [][(~ ui.returned_early /\ ui'.returned_early) =>
             ui' = [ui EXCEPT !.returned_early = TRUE]]_vars

\* a click has been handled while the worker was running: the button had been
\* enabled again by a change of the fractal type
C25_Witness ==
    /\ ui.returned_early
    /\ Len(ui.threads) = 1 /\ Running(1)
    /\ ui.generate_button

\* C26: while a generation is in flight, from the start of the thread by
\* on_generate_clicked until its on_generation_complete or on_generation_error
\* is handled, the Generate button is disabled, whatever other events occur.
C26_DisabledInFlight ==
    (\E k \in 1..Len(ui.threads) : InFlight(k)) => ~ ui.generate_button

\* the button is enabled while the only generation is in flight and its worker
\* is running
C26_EnabledInFlight ==
    /\ Len(ui.threads) = 1 /\ InFlight(1) /\ Running(1)
    /\ ui.generate_button
    /\ ui.progress_bar.visible

\* C27: the Generate button is enabled only if the selected combo entry is a
\* real fractal type, not the placeholder, for any ordering of fractal-type
\* changes, Generate clicks and completion or error callbacks.
C27_EnabledOnlyForRealType ==
    ui.generate_button => ui.fractal_combo # "Select Fractal Type..."

\* a terminal callback has enabled the button while the placeholder is selected
C27_EnabledOnPlaceholder ==
    /\ ui.generate_button
    /\ ui.fractal_combo = "Select Fractal Type..."
    /\ Len(ui.callbacks) = 1

\* a generation of the placeholder itself has been started
C27_PlaceholderGenerated ==
    \E k \in 1..Len(ui.threads) : ui.threads[k].fractal_type = "Select Fractal Type..."

\* C28: every generation started by on_generate_clicked eventually reaches
\* exactly one terminal callback, on_generation_complete or on_generation_error,
\* never both and never a second one, and the step that handles it leaves the
\* progress bar hidden and the Generate button enabled.
C28_OneTerminalCallback ==
    /\ \A k \in 1..MaxRuns :
          (Len(ui.threads) >= k) ~> (Cardinality(Callbacks(k)) = 1)
    /\ [](\A k \in 1..MaxRuns : Cardinality(Callbacks(k)) <= 1)
    /\ [][Len(ui'.callbacks) > Len(ui.callbacks) =>
             (~ ui'.progress_bar.visible /\ ui'.generate_button)]_vars

\* two generations have been handled, one by each callback; the bar is hidden
\* and the button enabled
C28_Witness ==
    /\ Len(ui.threads) = 2 /\ Len(ui.callbacks) = 2
    /\ {ui.callbacks[i].name : i \in 1..2} = {"on_generation_complete", "on_generation_error"}
    /\ {ui.callbacks[i].run : i \in 1..2} = {1, 2}
    /\ ~ ui.progress_bar.visible /\ ui.generate_button

\* C29: within one run the signals are emitted in a fixed order:
\* progress_update(10) first; then either progress_update(100) immediately
\* followed by generation_complete, or error_occurred with neither of the two;
\* a run that has returned has emitted one of the two sequences in full.
C29_SignalOrder ==
    \A k \in 1..Len(ui.threads) :
        LET e == ui.threads[k].emitted
            ok == <<"progress_update(10)", "progress_update(100)", "generation_complete">>
            failed == <<"progress_update(10)", "error_occurred">>
        IN  /\ \/ (Len(e) <= 3 /\ e = SubSeq(ok, 1, Len(e)))
               \/ (Len(e) <= 2 /\ e = SubSeq(failed, 1, Len(e)))
            /\ ui.threads[k].pc \in {"return", "finished"} => e \in {ok, failed}

\* one run has returned after each of the two sequences
C29_Witness ==
    /\ Len(ui.threads) = 2
    /\ \A k \in 1..2 : ui.threads[k].pc = "finished"
    /\ ui.threads[1].emitted = <<"progress_update(10)", "error_occurred">>
    /\ ui.threads[2].emitted = <<"progress_update(10)", "progress_update(100)",
                                 "generation_complete">>

\* C30: the Save button is enabled only if current_image is set;
\* current_image and current_raw_data are both unset or both the arrays of one
\* generation whose on_generation_complete has been handled; and
\* on_generation_error leaves current_image, current_raw_data and the Save
\* button as they are.
C30_SaveNeedsImage ==
    /\ [](/\ ui.save_button => ui.current_image # 0
          /\ ui.current_image = ui.current_raw_data
          /\ ui.current_image # 0 =>
                \E i \in 1..Len(ui.callbacks) :
                    ui.callbacks[i] = [name |-> "on_generation_complete",
                                       run |-> ui.current_image])
    /\ [][(Len(ui'.callbacks) > Len(ui.callbacks)
             /\ ui'.callbacks[Len(ui'.callbacks)].name = "on_generation_error") =>
            /\ ui'.current_image = ui.current_image
            /\ ui'.current_raw_data = ui.current_raw_data
            /\ ui'.save_button = ui.save_button]_vars

\* after a completed first generation the second has failed: the image, the
\* raw data and the enabled Save button are still those of the first
C30_Witness ==
    /\ ui.callbacks = <<[name |-> "on_generation_complete", run |-> 1],
                        [name |-> "on_generation_error", run |-> 2]>>
    /\ ui.current_image = 1 /\ ui.current_raw_data = 1
    /\ ui.save_button

\* a failed first generation has left the Save button disabled and no image
C30_ErrorFirstReached ==
    /\ Len(ui.callbacks) = 1 /\ ui.callbacks[1].name = "on_generation_error"
    /\ ui.current_image = 0 /\ ~ ui.save_button

=============================================================================
